---- MODULE Spec2Model ----
(***************************************************************************)
(* Model of the core services of sns-engagement-app:                       *)
(*   - StrategyManager   (src/src/services/strategyManager.ts)             *)
(*   - TrendDetector     (src/src/services/trendDetector.ts)               *)
(*   - scoreCalculator   (src/unnamed/part_012)                            *)
(*   - the API routes    (src/src/app/api/score, src/src/app/api/trends)   *)
(*   - the rate limiter of ClaudeClient (src/src/lib/claude.ts)            *)
(*   - the toast store   (src/src/hooks/useToast.ts)                       *)
(*   - the useStrategy store (src/src/lib/notifications.ts)                *)
(* Each part has its own specification (SpecStrategy, SpecTrend,           *)
(* SpecScore, ...); the variables of the other parts stay at their initial *)
(* value.                                                                  *)
(***************************************************************************)
EXTENDS Integers, Sequences, FiniteSets, TLC

VARIABLES strategy, thrown, lastOp, lastRatio, lastJson, lastUpdates,
          client, cachedTrends, now, calls, genCount,
          data, result,
          returned,
          requestTimes, clock, sent,
          toasts, maxToasts, nextId, pending,
          store

strategyVars == <<strategy, thrown, lastOp, lastRatio, lastJson, lastUpdates>>

trendVars == <<client, cachedTrends, now, calls, genCount>>

scoreVars == <<data, result>>

\* the value the last query method returned
queryVars == <<returned>>

\* RateLimiter.requestTimes, Date.now(), and the times of the API calls made
limiterVars == <<requestTimes, clock, sent>>

\* the toast store, the ids generated so far, and the toastPromise call in flight
toastVars == <<toasts, maxToasts, nextId, pending>>

\* the state of the useStrategy store
storeVars == <<store>>

appVars == <<limiterVars, toastVars, storeVars>>

vars == <<strategyVars, trendVars, scoreVars, queryVars, appVars>>

(***************************************************************************)
(* JavaScript numbers.  A number is a pair <<n, d>>: the exact rational    *)
(* n/d in lowest terms when d > 0, and a non-finite double when d = 0      *)
(* (<<0,0>> is NaN, <<1,0>> is Infinity, <<-1,0>> is -Infinity).  The JS   *)
(* value null, which JSON.parse can put in a numeric field, is <<0,-1>>.   *)
(* Rounding error of binary doubles is not modelled: arithmetic is exact.  *)
(***************************************************************************)
NaN == <<0, 0>>

PosInf == <<1, 0>>

NegInf == <<-1, 0>>

Null == <<0, -1>>

Abs(x) == IF x < 0 THEN -x ELSE x

Sign(x) == IF x < 0 THEN -1 ELSE IF x > 0 THEN 1 ELSE 0

RECURSIVE GCD(_, _)
GCD(a, b) == IF b = 0 THEN a ELSE GCD(b, a % b)

\* the rational n/d (d # 0) in lowest terms with a positive denominator
Rat(n, d) ==
    LET g == GCD(Abs(n), Abs(d))
        s == IF d < 0 THEN -1 ELSE 1
    IN  <<(s * n) \div g, (s * d) \div g>>

IsFinite(x) == x[2] > 0

\* ToNumber: null converts to 0 in arithmetic
ToNumber(v) == IF v = Null THEN <<0, 1>> ELSE v

\* a + b on JS numbers (null operands are converted)
NumAdd(va, vb) ==
    LET a == ToNumber(va)
        b == ToNumber(vb)
    IN  IF a = NaN \/ b = NaN THEN NaN
        ELSE IF ~IsFinite(a) /\ ~IsFinite(b) THEN (IF a = b THEN a ELSE NaN)
        ELSE IF ~IsFinite(a) THEN a
        ELSE IF ~IsFinite(b) THEN b
        ELSE Rat(a[1] * b[2] + b[1] * a[2], a[2] * b[2])

\* a - b on JS numbers
NumSub(va, vb) ==
    LET b == ToNumber(vb)
    IN  NumAdd(va, <<-b[1], b[2]>>)

\* a / b on JS numbers: x/0 is NaN for x = 0 and +-Infinity otherwise
NumDiv(va, vb) ==
    LET a == ToNumber(va)
        b == ToNumber(vb)
    IN  IF a = NaN \/ b = NaN THEN NaN
        ELSE IF ~IsFinite(a) /\ ~IsFinite(b) THEN NaN
        ELSE IF ~IsFinite(a) THEN (IF b[1] < 0 THEN <<-a[1], 0>> ELSE a)
        ELSE IF ~IsFinite(b) THEN <<0, 1>>
        ELSE IF b[1] = 0 THEN <<Sign(a[1]), 0>>
        ELSE Rat(a[1] * b[2], a[2] * b[1])

\* a < b on JS numbers: every comparison with NaN is false
NumLt(va, vb) ==
    LET a == ToNumber(va)
        b == ToNumber(vb)
    IN  IF a = NaN \/ b = NaN THEN FALSE
        ELSE IF a = b THEN FALSE
        ELSE IF a = NegInf \/ b = PosInf THEN TRUE
        ELSE IF a = PosInf \/ b = NegInf THEN FALSE
        ELSE a[1] * b[2] < b[1] * a[2]

NumLe(va, vb) == NumLt(va, vb) \/ (ToNumber(va) # NaN /\ ToNumber(va) = ToNumber(vb))

\* Math.min / Math.max: NaN if either argument is NaN
MathMin(a, b) == IF a = NaN \/ b = NaN THEN NaN ELSE IF NumLt(b, a) THEN b ELSE a

MathMax(a, b) == IF a = NaN \/ b = NaN THEN NaN ELSE IF NumLt(a, b) THEN b ELSE a

One == <<1, 1>>

Half == <<1, 2>>

(***************************************************************************)
(* StrategyManager                                                         *)
(***************************************************************************)
StrategyFields == {"impressionRatio", "expressionRatio", "weeklyExpressionDays", "commentStrategy"}

CommentFields == {"enabled", "targetTrendingPosts", "maxCommentsPerDay", "avoidNegative"}

DEFAULT_COMMENT_STRATEGY ==
    [enabled |-> TRUE, targetTrendingPosts |-> TRUE, maxCommentsPerDay |-> 10, avoidNegative |-> TRUE]

DEFAULT_STRATEGY ==
    [impressionRatio |-> <<9, 10>>,
     expressionRatio |-> <<1, 10>>,
     weeklyExpressionDays |-> <<0, 6>>,
     commentStrategy |-> DEFAULT_COMMENT_STRATEGY]

\* An object that may lack some keys (Partial<T>, or a parsed JSON object):
\* `has` is the set of keys present, the other keys hold a placeholder.
PartialStrategy(has, imp, exp, days, cs) ==
    [has |-> has, impressionRatio |-> imp, expressionRatio |-> exp,
     weeklyExpressionDays |-> days, commentStrategy |-> cs]

PartialComment(has, en, tt, mc, an) ==
    [has |-> has, enabled |-> en, targetTrendingPosts |-> tt,
     maxCommentsPerDay |-> mc, avoidNegative |-> an]

\* { ...base, ...over } on EngagementStrategy
SpreadStrategy(base, over) ==
    [impressionRatio |->
        IF "impressionRatio" \in over.has THEN over.impressionRatio ELSE base.impressionRatio,
     expressionRatio |->
        IF "expressionRatio" \in over.has THEN over.expressionRatio ELSE base.expressionRatio,
     weeklyExpressionDays |->
        IF "weeklyExpressionDays" \in over.has THEN over.weeklyExpressionDays
        ELSE base.weeklyExpressionDays,
     commentStrategy |->
        IF "commentStrategy" \in over.has THEN over.commentStrategy ELSE base.commentStrategy]

\* { ...base, ...over } on CommentStrategy
SpreadComment(base, over) ==
    [enabled |-> IF "enabled" \in over.has THEN over.enabled ELSE base.enabled,
     targetTrendingPosts |->
        IF "targetTrendingPosts" \in over.has THEN over.targetTrendingPosts
        ELSE base.targetTrendingPosts,
     maxCommentsPerDay |->
        IF "maxCommentsPerDay" \in over.has THEN over.maxCommentsPerDay
        ELSE base.maxCommentsPerDay,
     avoidNegative |-> IF "avoidNegative" \in over.has THEN over.avoidNegative ELSE base.avoidNegative]

\* normalizeRatios without the division: a plausible slip that keeps the ratios as given
normalizeRatios_noop(s) == s

\* normalizeRatios(): total !== 1 divides both ratios by the total
normalizeRatios(s) ==
    LET total == NumAdd(s.impressionRatio, s.expressionRatio)
    IN  IF total # One
        THEN [s EXCEPT !.impressionRatio = NumDiv(s.impressionRatio, total),
                       !.expressionRatio = NumDiv(s.expressionRatio, total)]
        ELSE s

\* new StrategyManager(partial)
construct(partial) == normalizeRatios(SpreadStrategy(DEFAULT_STRATEGY, partial))

\* the clamp with its lower bound at 0 instead of 0.5
clampRatio_low0(ratio) == MathMax(<<0, 1>>, MathMin(One, ratio))

\* Math.max(0.5, Math.min(1, ratio))
clampRatio(ratio) == MathMax(Half, MathMin(One, ratio))

\* setImpressionRatio(ratio)
setImpressionRatio(s, ratio) ==
    LET clampedRatio == clampRatio(ratio)
    IN  [s EXCEPT !.impressionRatio = clampedRatio,
                  !.expressionRatio = NumSub(One, clampedRatio)]

\* setExpressionDays(days): days.filter(d => d >= 0 && d <= 6)
setExpressionDays(s, days) ==
    [s EXCEPT !.weeklyExpressionDays = SelectSeq(days, LAMBDA d : d >= 0 /\ d <= 6)]

\* the argument {} of updateCommentStrategy
NoUpdates == PartialComment({}, TRUE, TRUE, 10, TRUE)

\* updateCommentStrategy that merges the updates over the default comment strategy
updateCommentStrategy_overDefault(s, updates) ==
    [s EXCEPT !.commentStrategy = SpreadComment(DEFAULT_COMMENT_STRATEGY, updates)]

\* updateCommentStrategy(updates)
updateCommentStrategy(s, updates) ==
    [s EXCEPT !.commentStrategy = SpreadComment(s.commentStrategy, updates)]

(***************************************************************************)
(* JSON text is modelled by the value it denotes: InvalidJson for a text   *)
(* JSON.parse rejects, otherwise a partial object.  JSON.stringify writes  *)
(* a non-finite number (NaN, Infinity) as null.                            *)
(***************************************************************************)
InvalidJson == [valid |-> FALSE, value |-> PartialStrategy({}, Null, Null, <<>>, DEFAULT_COMMENT_STRATEGY)]

JsonObject(obj) == [valid |-> TRUE, value |-> obj]

StringifyNumber(v) == IF v = Null \/ ~IsFinite(v) THEN Null ELSE v

\* exportStrategy(): JSON.stringify(this.strategy, null, 2)
exportStrategy(s) ==
    JsonObject(PartialStrategy(StrategyFields,
                               StringifyNumber(s.impressionRatio),
                               StringifyNumber(s.expressionRatio),
                               s.weeklyExpressionDays,
                               s.commentStrategy))

\* the message of the Error importStrategy throws (無効な戦略データです: "invalid strategy data")
ImportError == "invalid strategy data"

\* importStrategy that merges before it knows the text parses
importStrategy_eager(s, json) ==
    IF json.valid
    THEN [strategy |-> normalizeRatios(SpreadStrategy(DEFAULT_STRATEGY, json.value)), thrown |-> "none"]
    ELSE [strategy |-> DEFAULT_STRATEGY, thrown |-> ImportError]

\* importStrategy that merges the parsed object over the current strategy
importStrategy_overCurrent(s, json) ==
    IF json.valid
    THEN [strategy |-> normalizeRatios(SpreadStrategy(s, json.value)), thrown |-> "none"]
    ELSE [strategy |-> s, thrown |-> ImportError]

\* importStrategy(json): the resulting strategy and the error thrown
importStrategy(s, json) ==
    IF json.valid
    THEN [strategy |-> normalizeRatios(SpreadStrategy(DEFAULT_STRATEGY, json.value)), thrown |-> "none"]
    ELSE [strategy |-> s, thrown |-> ImportError]

\* no query has returned since the last change
NoReturn == [op |-> "none"]

\* isRatioHealthy().status
isRatioHealthy(s) ==
    LET impressionRatio == s.impressionRatio
    IN  IF NumLe(<<4, 5>>, impressionRatio) /\ NumLe(impressionRatio, <<19, 20>>) THEN "healthy"
        ELSE IF NumLt(<<19, 20>>, impressionRatio) THEN "warning"
        ELSE IF NumLt(impressionRatio, <<7, 10>>) THEN "critical"
        ELSE "acceptable"

(***************************************************************************)
(* Dates.  A Date is a calendar day [year, month, date] of the local time  *)
(* zone; year 0 is 2025 and year 1 is 2026, neither a leap year.  The time *)
(* of day, which the schedule copies unchanged, is left out.               *)
(***************************************************************************)
Date(year, month, date) == [year |-> year, month |-> month, date |-> date]

daysInMonth(month) ==
    IF month = 2 THEN 28 ELSE IF month \in {4, 6, 9, 11} THEN 30 ELSE 31

RECURSIVE daysBefore(_)
daysBefore(month) == IF month = 1 THEN 0 ELSE daysBefore(month - 1) + daysInMonth(month - 1)

\* the number of the day counted from 2025-01-01 = 1
dayNumber(d) == d.year * 365 + daysBefore(d.month) + d.date

\* Date.prototype.getDay(): 0 is Sunday; 2025-01-01 is a Wednesday
getDay(d) == (dayNumber(d) + 2) % 7

\* Date.prototype.setDate(n) for n >= 1: a day number beyond the end of the
\* month rolls over into the following months
RECURSIVE setDate(_, _)
setDate(d, n) ==
    IF n <= daysInMonth(d.month) THEN [d EXCEPT !.date = n]
    ELSE setDate(IF d.month = 12 THEN Date(d.year + 1, 1, 1) ELSE Date(d.year, d.month + 1, 1),
                 n - daysInMonth(d.month))

\* Array.prototype.includes
includes(array, x) == \E i \in 1..Len(array) : array[i] = x

\* getRecommendedMode with the weekend in place of the configured days
getRecommendedMode_weekend(s, date) ==
    IF getDay(date) \in {0, 6} THEN "expression" ELSE "impression"

\* getRecommendedMode(date)
getRecommendedMode(s, date) ==
    IF includes(s.weeklyExpressionDays, getDay(date)) THEN "expression" ELSE "impression"

\* DAY_LABELS (日 月 火 水 木 金 土), by their English names
DAY_LABELS == <<"Sun", "Mon", "Tue", "Wed", "Thu", "Fri", "Sat">>

\* the schedule built on one Date object that every round moves on, instead
\* of a fresh copy of startDate
generateWeeklySchedule_noCopy(s, startDate) ==
    [k \in 1..7 |->
        LET i == k - 1
            date == setDate(startDate, startDate.date + (i * (i + 1)) \div 2)
            dayOfWeek == getDay(date)
            isExpressionDay == includes(s.weeklyExpressionDays, dayOfWeek)
        IN  [date |-> date,
             dayOfWeek |-> dayOfWeek,
             dayLabel |-> DAY_LABELS[dayOfWeek + 1],
             recommendedMode |-> IF isExpressionDay THEN "expression" ELSE "impression",
             isExpressionDay |-> isExpressionDay]]

\* generateWeeklySchedule(startDate)
generateWeeklySchedule(s, startDate) ==
    [k \in 1..7 |->
        LET i == k - 1
            date == setDate(startDate, startDate.date + i)
            dayOfWeek == getDay(date)
            isExpressionDay == includes(s.weeklyExpressionDays, dayOfWeek)
        IN  [date |-> date,
             dayOfWeek |-> dayOfWeek,
             dayLabel |-> DAY_LABELS[dayOfWeek + 1],
             recommendedMode |-> IF isExpressionDay THEN "expression" ELSE "impression",
             isExpressionDay |-> isExpressionDay]]

(***************************************************************************)
(* classifyPost.  A text is a sequence of words; the keywords are written  *)
(* in Latin letters (個人的 kojinteki, 私は watashiwa, 思う omou, ...).  No      *)
(* keyword is part of another one, so content.includes(kw) is the          *)
(* presence of the word kw.                                                *)
(***************************************************************************)
expressionKeywords ==
    <<"kojinteki", "watashiwa", "omou", "kanjiru", "suki", "kirai",
      "nikki", "zatsudan", "tsubuyaki", "hitorigoto">>

impressionKeywords ==
    <<"houhou", "kotsu", "pointo", "kaisetsu", "shoukai",
      "osusume", "matome", "rankingu", "torendo",
      "chishiki", "jouhou", "nouhau", "tips">>

\* classifyPost that counts every occurrence of a keyword
classifyPost_perOccurrence(content) ==
    LET expressionScore == Len(SelectSeq(content, LAMBDA w : includes(expressionKeywords, w)))
        impressionScore == Len(SelectSeq(content, LAMBDA w : includes(impressionKeywords, w)))
    IN  [suggestedMode |-> IF impressionScore >= expressionScore THEN "impression" ELSE "expression",
         confidence |-> Rat(Abs(impressionScore - expressionScore), 5),
         expressionScore |-> expressionScore,
         impressionScore |-> impressionScore]

\* classifyPost(content)
classifyPost(content) ==
    LET expressionScore == Len(SelectSeq(expressionKeywords, LAMBDA kw : includes(content, kw)))
        impressionScore == Len(SelectSeq(impressionKeywords, LAMBDA kw : includes(content, kw)))
    IN  [suggestedMode |-> IF impressionScore >= expressionScore THEN "impression" ELSE "expression",
         confidence |-> Rat(Abs(impressionScore - expressionScore), 5),
         expressionScore |-> expressionScore,
         impressionScore |-> impressionScore]

\* longest text made of the common words
MaxTextLen == 3

\* texts: every sequence of up to MaxTextLen words out of two expression
\* keywords, two impression keywords and a word that is no keyword, and
\* three texts with many keywords
Contents ==
    UNION {[1..n -> {"omou", "suki", "houhou", "tips", "kyou"}] : n \in 0..MaxTextLen}
        \cup {impressionKeywords, expressionKeywords, expressionKeywords \o impressionKeywords}

(***************************************************************************)
(* Inputs of the StrategyManager operations                                *)
(***************************************************************************)
\* ratios are drawn from the quarters 0/4 .. MaxRatioNum/4
MaxRatioNum == 5

\* longest array passed to setExpressionDays
MaxDaysLen == 2

RatioInputs == {Rat(k, 4) : k \in 0..MaxRatioNum}

DayInputs == {-1, 3, 7}

DayArrays == UNION {[1..n -> DayInputs] : n \in 0..MaxDaysLen}

CommentUpdates ==
    {PartialComment({}, TRUE, TRUE, 10, TRUE),
     PartialComment({"enabled"}, FALSE, TRUE, 10, TRUE),
     PartialComment({"maxCommentsPerDay", "avoidNegative"}, TRUE, TRUE, 5, FALSE)}

ImportedComment ==
    [enabled |-> TRUE, targetTrendingPosts |-> FALSE, maxCommentsPerDay |-> 5, avoidNegative |-> TRUE]

\* objects that give both ratios, one ratio, or none
RatioPartials ==
    {PartialStrategy({"impressionRatio", "expressionRatio"}, i, e, <<>>, DEFAULT_COMMENT_STRATEGY) :
        i \in RatioInputs, e \in RatioInputs}
    \cup {PartialStrategy({"impressionRatio"}, i, Null, <<>>, DEFAULT_COMMENT_STRATEGY) :
            i \in RatioInputs}
    \cup {PartialStrategy({"expressionRatio"}, Null, e, <<>>, DEFAULT_COMMENT_STRATEGY) :
            e \in RatioInputs}
    \cup {PartialStrategy({}, Null, Null, <<>>, DEFAULT_COMMENT_STRATEGY)}

FullStrategies ==
    {PartialStrategy(StrategyFields, <<3, 4>>, <<1, 4>>, <<5, 6>>, ImportedComment)}

\* objects that give only weeklyExpressionDays
DayPartials ==
    {PartialStrategy({"weeklyExpressionDays"}, Null, Null, days, DEFAULT_COMMENT_STRATEGY) :
        days \in DayArrays}

\* number of start dates taken from the end of February
MaxStartDays == 7

\* start dates: the last days of February 2025, which between them fall on
\* every day of the week, and the last day of the year
StartDates == {Date(0, 2, 28 - k) : k \in 0..(MaxStartDays - 1)} \cup {Date(0, 12, 31)}

ConstructorInputs == RatioPartials \cup FullStrategies \cup DayPartials

ImportInputs ==
    {InvalidJson} \cup {JsonObject(o) : o \in RatioPartials \cup FullStrategies \cup DayPartials}

(***************************************************************************)
(* TrendDetector: state                                                    *)
(***************************************************************************)
\* generateTrendingTopics calls issued in one behaviour
MaxGenerations == 2

\* the clock (Date.now()) runs from 0 to MaxTime, in units of 15 minutes
MaxTime == 2

\* cacheExpiryMs = 30 * 60 * 1000, in units of 15 minutes
cacheExpiryMs == 2

NoResponse ==
    [id |-> 0, trends |-> <<>>, recommendedHashtags |-> <<>>, buzzPatterns |-> <<>>, analyzedAt |-> 0]

\* the frame of a detectTrends(request) call at its entry; calls holds the
\* frames of the calls that have started and whose caller has not yet taken
\* the outcome
NewCall(request) ==
    [pc |-> "entered", request |-> request, viaClient |-> FALSE, generation |-> 0,
     reply |-> "none", trends |-> <<>>, hashtags |-> <<>>, result |-> NoResponse,
     error |-> "none"]

\* new Map()
EmptyCache == [k \in {} |-> [data |-> NoResponse, timestamp |-> 0]]

\* the TrendDetector before its first call, without an API key
IdleTrend ==
    /\ client = FALSE
    /\ cachedTrends = EmptyCache
    /\ now = 0
    /\ calls = {}
    /\ genCount = 0

(***************************************************************************)
(* scoreCalculator: state                                                  *)
(***************************************************************************)
BehaviorData(likes, comments, shares, replies, thisWeek, lastWeek, timings, hashtagsUsed, topics, early, followers, mentions, saved, visits) ==
    [likesGiven |-> likes, commentsGiven |-> comments, sharesGiven |-> shares,
     repliesReceived |-> replies, postsThisWeek |-> thisWeek, postsLastWeek |-> lastWeek,
     averagePostsPerWeek |-> 0, postTimings |-> timings,
     trendingHashtagsUsed |-> hashtagsUsed, trendingTopicsEngaged |-> topics,
     earlyTrendEngagement |-> early, followersGained |-> followers,
     mentionsReceived |-> mentions, savedByOthers |-> saved, profileVisits |-> visits]

\* UserBehaviorData with every counter zero and no post timings
ZeroData == BehaviorData(0, 0, 0, 0, 0, 0, <<>>, 0, 0, 0, 0, 0, 0, 0)

\* no calculatePlatformScore call has returned yet
NoResult ==
    [computed |-> FALSE, overallScore |-> 0, engagementScore |-> 0, consistencyScore |-> 0,
     trendScore |-> 0, communityScore |-> 0, recommendations |-> <<>>]

\* a score calculator nobody calls
IdleScore ==
    /\ data = ZeroData
    /\ result = NoResult

(***************************************************************************)
(* RateLimiter of ClaudeClient.  Times are in units of windowMs / 4 (15    *)
(* seconds for the default window of 60000 ms), and the default of 50      *)
(* requests per window is scaled down with it.  The synchronous part of    *)
(* sendMessage reads one clock value.                                      *)
(***************************************************************************)
\* windowMs (60000 ms), in clock units
windowMs == 4

\* maxRequests (50), scaled down
maxRequests == 2

\* the clock runs from 0 to MaxClock
MaxClock == 9

\* cleanup() that keeps the request made exactly windowMs ago
cleanup_inclusive(times, t) == SelectSeq(times, LAMBDA time : time >= t - windowMs)

\* cleanup() at Date.now() = t
cleanup(times, t) == SelectSeq(times, LAMBDA time : time > t - windowMs)

\* canRequest() at time t
canRequest(times, t) == Len(cleanup(times, t)) < maxRequests

\* getWaitTime() at time t
getWaitTime(times, t) ==
    IF canRequest(times, t) THEN 0
    ELSE IF Len(cleanup(times, t)) = 0 THEN 0
    ELSE LET oldestRequest == cleanup(times, t)[1]
         IN  IF oldestRequest + windowMs - t > 0 THEN oldestRequest + windowMs - t ELSE 0

IdleLimiter ==
    /\ requestTimes = <<>>
    /\ clock = 0
    /\ sent = <<>>

(***************************************************************************)
(* The toast store (useToast) and toastPromise                             *)
(***************************************************************************)
\* a ToastData; generateId() gives every toast an id of its own, here the
\* number of the toast
Toast(id, type, title, duration) ==
    [id |-> id, type |-> type, title |-> title, duration |-> duration, dismissible |-> TRUE]

\* array.slice(start)
slice(array, start) ==
    LET len == Len(array)
        begin == IF start < 0 THEN (IF len + start > 0 THEN len + start ELSE 0)
                 ELSE (IF start < len THEN start ELSE len)
    IN  SubSeq(array, begin + 1, len)

\* the state update of addToast(toast)
addToast(queue, max, newToast) ==
    LET updatedToasts == Append(queue, newToast)
    IN  IF Len(updatedToasts) > max THEN slice(updatedToasts, -max) ELSE updatedToasts

\* the state update of removeToast(id)
removeToast(queue, id) == SelectSeq(queue, LAMBDA toast : toast.id # id)

\* the shortcuts: the duration each gives a toast made without options
defaultDuration(type) ==
    IF type = "error" THEN 8000 ELSE IF type = "warning" THEN 6000 ELSE 5000

\* toastPromise that adds the outcome toast before it dismisses the loading toast
settle_addFirst(queue, max, loadingId, outcome) ==
    removeToast(addToast(queue, max, outcome), loadingId)

\* toastPromise after the await: toast.dismiss(loadingId), then
\* toast.success(...) or toast.error(...)
settle(queue, max, loadingId, outcome) ==
    addToast(removeToast(queue, loadingId), max, outcome)

NoPromise == [pc |-> "none", loadingId |-> 0]

IdleToast ==
    /\ toasts = <<>>
    /\ maxToasts = 5
    /\ nextId = 1
    /\ pending = NoPromise

(***************************************************************************)
(* The useStrategy store.  The state holds the strategy and the three      *)
(* derived fields; today is the value of new Date() when an action runs.   *)
(***************************************************************************)
\* getCommentAdvice(), each advice text by a label
getCommentAdvice(s) ==
    LET cs == s.commentStrategy
    IN  IF cs.enabled
        THEN <<"enabled">>
                \o (IF cs.targetTrendingPosts THEN <<"targetTrendingPosts">> ELSE <<>>)
                \o (IF cs.avoidNegative THEN <<"avoidNegative">> ELSE <<>>)
                \o (IF cs.maxCommentsPerDay > 20 THEN <<"tooManyComments">> ELSE <<>>)
        ELSE <<"disabled">>

\* a whole EngagementStrategy as the argument of new StrategyManager(...)
Whole(s) ==
    PartialStrategy(StrategyFields, s.impressionRatio, s.expressionRatio,
                    s.weeklyExpressionDays, s.commentStrategy)

NoDate == Date(0, 0, 0)

\* the initial state of the store
NewStore(today) ==
    LET manager == construct(Whole(DEFAULT_STRATEGY))
    IN  [strategy |-> DEFAULT_STRATEGY,
         lastUpdated |-> NoDate,
         weeklySchedule |-> generateWeeklySchedule(manager, today),
         ratioHealth |-> isRatioHealthy(manager),
         commentAdvice |-> getCommentAdvice(manager)]

\* useStrategy's setImpressionRatio(ratio)
useStrategy_setImpressionRatio(state, ratio, today) ==
    LET clampedRatio == clampRatio(ratio)
        newStrategy == [state.strategy EXCEPT !.impressionRatio = clampedRatio,
                                              !.expressionRatio = NumSub(One, clampedRatio)]
        newManager == construct(Whole(newStrategy))
    IN  [state EXCEPT !.strategy = newStrategy,
                      !.ratioHealth = isRatioHealthy(newManager),
                      !.lastUpdated = today]

\* setExpressionDays that leaves the schedule as it was
useStrategy_setExpressionDays_stale(state, days, today) ==
    [state EXCEPT !.strategy.weeklyExpressionDays = SelectSeq(days, LAMBDA d : d >= 0 /\ d <= 6),
                  !.lastUpdated = today]

\* useStrategy's setExpressionDays(days)
useStrategy_setExpressionDays(state, days, today) ==
    LET validDays == SelectSeq(days, LAMBDA d : d >= 0 /\ d <= 6)
        newStrategy == [state.strategy EXCEPT !.weeklyExpressionDays = validDays]
        newManager == construct(Whole(newStrategy))
    IN  [state EXCEPT !.strategy = newStrategy,
                      !.weeklySchedule = generateWeeklySchedule(newManager, today),
                      !.lastUpdated = today]

\* toggleExpressionDay(day)
useStrategy_toggleExpressionDay(state, day, today) ==
    LET currentDays == state.strategy.weeklyExpressionDays
        newDays == IF includes(currentDays, day)
                   THEN SelectSeq(currentDays, LAMBDA d : d # day)
                   ELSE Append(currentDays, day)
    IN  useStrategy_setExpressionDays(state, newDays, today)

\* useStrategy's updateCommentStrategy(updates)
useStrategy_updateCommentStrategy(state, updates, today) ==
    LET newStrategy == [state.strategy EXCEPT
                            !.commentStrategy = SpreadComment(state.strategy.commentStrategy, updates)]
        newManager == construct(Whole(newStrategy))
    IN  [state EXCEPT !.strategy = newStrategy,
                      !.commentAdvice = getCommentAdvice(newManager),
                      !.lastUpdated = today]

\* resetToDefault()
useStrategy_resetToDefault(state, today) == [NewStore(today) EXCEPT !.lastUpdated = today]

\* refreshSchedule()
useStrategy_refreshSchedule(state, today) ==
    [state EXCEPT !.weeklySchedule = generateWeeklySchedule(construct(Whole(state.strategy)), today)]

IdleStore == store = NewStore(Date(0, 2, 28))

\* the client-side parts with nobody using them
IdleApp ==
    /\ IdleLimiter
    /\ IdleToast
    /\ IdleStore

(***************************************************************************)
(* StrategyManager as a state machine                                      *)
(***************************************************************************)
InitStrategy ==
    /\ \E partial \in ConstructorInputs : strategy = construct(partial)
    /\ thrown = "none"
    /\ lastOp = "construct"
    /\ lastRatio = <<0, 1>>
    /\ lastJson = InvalidJson
    /\ lastUpdates = NoUpdates
    /\ IdleTrend
    /\ IdleScore
    /\ returned = NoReturn
    /\ IdleApp

SetImpressionRatio(ratio) ==
    /\ strategy' = setImpressionRatio(strategy, ratio)
    /\ thrown' = "none"
    /\ lastOp' = "setImpressionRatio"
    /\ lastRatio' = ratio
    /\ lastJson' = InvalidJson
    /\ lastUpdates' = NoUpdates
    /\ returned' = NoReturn
    /\ UNCHANGED <<trendVars, scoreVars, appVars>>

SetExpressionDays(days) ==
    /\ strategy' = setExpressionDays(strategy, days)
    /\ thrown' = "none"
    /\ lastOp' = "setExpressionDays"
    /\ lastRatio' = <<0, 1>>
    /\ lastJson' = InvalidJson
    /\ lastUpdates' = NoUpdates
    /\ returned' = NoReturn
    /\ UNCHANGED <<trendVars, scoreVars, appVars>>

UpdateCommentStrategy(updates) ==
    /\ strategy' = updateCommentStrategy(strategy, updates)
    /\ thrown' = "none"
    /\ lastOp' = "updateCommentStrategy"
    /\ lastRatio' = <<0, 1>>
    /\ lastJson' = InvalidJson
    /\ lastUpdates' = updates
    /\ returned' = NoReturn
    /\ UNCHANGED <<trendVars, scoreVars, appVars>>

ImportStrategy(json) ==
    LET r == importStrategy(strategy, json)
    IN  /\ strategy' = r.strategy
        /\ thrown' = r.thrown
        /\ lastOp' = IF json.valid THEN "importStrategy" ELSE "importInvalid"
        /\ lastRatio' = <<0, 1>>
        /\ lastJson' = json
        /\ lastUpdates' = NoUpdates
        /\ returned' = NoReturn
        /\ UNCHANGED <<trendVars, scoreVars, appVars>>

\* manager.importStrategy(manager.exportStrategy())
ExportImport ==
    LET r == importStrategy(strategy, exportStrategy(strategy))
    IN  /\ strategy' = r.strategy
        /\ thrown' = r.thrown
        /\ lastOp' = "exportImport"
        /\ lastRatio' = <<0, 1>>
        /\ lastJson' = exportStrategy(strategy)
        /\ lastUpdates' = NoUpdates
        /\ returned' = NoReturn
        /\ UNCHANGED <<trendVars, scoreVars, appVars>>

\* isRatioHealthy()
IsRatioHealthy ==
    /\ returned' = [op |-> "isRatioHealthy", status |-> isRatioHealthy(strategy)]
    /\ UNCHANGED <<strategyVars, trendVars, scoreVars, appVars>>

\* getRecommendedMode(date)
GetRecommendedMode(date) ==
    /\ returned' = [op |-> "getRecommendedMode", date |-> date,
                    mode |-> getRecommendedMode(strategy, date)]
    /\ UNCHANGED <<strategyVars, trendVars, scoreVars, appVars>>

\* generateWeeklySchedule(startDate)
GenerateWeeklySchedule(startDate) ==
    /\ returned' = [op |-> "generateWeeklySchedule", startDate |-> startDate,
                    schedule |-> generateWeeklySchedule(strategy, startDate)]
    /\ UNCHANGED <<strategyVars, trendVars, scoreVars, appVars>>

NextStrategy ==
    \/ \E ratio \in RatioInputs : SetImpressionRatio(ratio)
    \/ \E days \in DayArrays : SetExpressionDays(days)
    \/ \E updates \in CommentUpdates : UpdateCommentStrategy(updates)
    \/ \E json \in ImportInputs : ImportStrategy(json)
    \/ ExportImport

SpecStrategy == InitStrategy /\ [][NextStrategy]_vars

\* the query methods, called on a manager as any constructor call leaves it
NextQueries ==
    \/ IsRatioHealthy
    \/ \E date \in StartDates : GetRecommendedMode(date)
    \/ \E startDate \in StartDates : GenerateWeeklySchedule(startDate)

SpecQueries == InitStrategy /\ [][NextQueries]_vars

\* impressionRatio + expressionRatio === 1
RatiosSumToOne(s) == NumAdd(s.impressionRatio, s.expressionRatio) = One

(***************************************************************************)
(* Properties of StrategyManager                                           *)
(***************************************************************************)

\* a sequence that lists integers of 0..6 without repeating one
IsDaySet(days) ==
    /\ \A i \in 1..Len(days) : days[i] \in 0..6
    /\ \A i, j \in 1..Len(days) : i # j => days[i] # days[j]

C22_SettersChangeOwnPart ==
    [][/\ lastOp' = "setImpressionRatio" =>
            /\ strategy'.weeklyExpressionDays = strategy.weeklyExpressionDays
            /\ strategy'.commentStrategy = strategy.commentStrategy
       /\ lastOp' = "setExpressionDays" =>
            /\ strategy'.impressionRatio = strategy.impressionRatio
            /\ strategy'.expressionRatio = strategy.expressionRatio
            /\ strategy'.commentStrategy = strategy.commentStrategy
       /\ lastOp' = "updateCommentStrategy" =>
            /\ strategy'.impressionRatio = strategy.impressionRatio
            /\ strategy'.expressionRatio = strategy.expressionRatio
            /\ strategy'.weeklyExpressionDays = strategy.weeklyExpressionDays
            /\ \A key \in CommentFields :
                    strategy'.commentStrategy[key] =
                        IF key \in lastUpdates'.has THEN lastUpdates'[key]
                        ELSE strategy.commentStrategy[key]]_vars

\* an update of enabled alone has kept a maxCommentsPerDay and a
\* targetTrendingPosts that are not the defaults
C22_Witness ==
    /\ lastOp = "updateCommentStrategy"
    /\ lastUpdates.has = {"enabled"}
    /\ strategy.commentStrategy.enabled = FALSE
    /\ strategy.commentStrategy.maxCommentsPerDay = 5
    /\ strategy.commentStrategy.targetTrendingPosts = FALSE

\* C28: in every reachable StrategyManager state, directly after
\* construction and after a successful import included, impressionRatio lies
\* in [0.5, 1].
C28_ImpressionRatioAtLeastHalf ==
    /\ NumLe(Half, strategy.impressionRatio)
    /\ NumLe(strategy.impressionRatio, One)

\* C11: in every reachable StrategyManager state weeklyExpressionDays holds
\* only integers of 0..6 and holds none of them twice.
C11_ExpressionDaysIsSet == IsDaySet(strategy.weeklyExpressionDays)

\* C1: in every reachable StrategyManager state (construction with any partial
\* strategy, then any setters and successful imports) impressionRatio +
\* expressionRatio equals 1.
C1_RatiosSumToOne == RatiosSumToOne(strategy)

C9_RoundTripIdentity ==
    [][lastOp' = "exportImport" =>
            /\ thrown' = "none"
            /\ strategy' = strategy
            /\ RatiosSumToOne(strategy')]_vars

\* C10: importStrategy of a text that is not valid JSON throws the import
\* error and leaves the strategy exactly as it was before the call.
C10_InvalidImportKeepsStrategy ==
    [][lastOp' = "importInvalid" => (thrown' = ImportError /\ strategy' = strategy)]_vars

\* an invalid import has been rejected while the manager held a non-default strategy
C10_Witness ==
    /\ lastOp = "importInvalid"
    /\ thrown = ImportError
    /\ strategy # DEFAULT_STRATEGY

(***************************************************************************)
(* TrendDetector: tables and pure helpers                                  *)
(***************************************************************************)
MockTopic(platform, n, category) ==
    [source |-> "mock", platform |-> platform, n |-> n, category |-> category, hasHashtags |-> TRUE]

\* the static table of getMockTrendingTopics
MockTable(platform) ==
    CASE platform = "instagram" ->
            <<MockTopic("instagram", 1, "lifestyle"), MockTopic("instagram", 2, "entertainment"),
              MockTopic("instagram", 3, "lifestyle")>>
      [] platform = "twitter" ->
            <<MockTopic("twitter", 1, "technology"), MockTopic("twitter", 2, "news"),
              MockTopic("twitter", 3, "business")>>
      [] OTHER ->
            <<MockTopic("threads", 1, "technology"), MockTopic("threads", 2, "business"),
              MockTopic("threads", 3, "lifestyle"), MockTopic("threads", 4, "business"),
              MockTopic("threads", 5, "lifestyle")>>

MinOf(a, b) == IF a < b THEN a ELSE b

\* getMockTrendingTopics(platform, category, limit): filter by category, slice(0, limit)
getMockTrendingTopics(platform, category, limit) ==
    LET topics == IF category # "none"
                  THEN SelectSeq(MockTable(platform), LAMBDA t : t.category = category)
                  ELSE MockTable(platform)
    IN  SubSeq(topics, 1, MinOf(limit, Len(topics)))

\* what the LLM answered to messages.create
ReplyKinds == {"ok", "noArray", "badJson", "nullElement", "malformed", "apiError"}

\* the topics mapped from a parsed reply; the elements of a malformed array
\* carry no relatedHashtags
LlmTopics(platform, wellFormed) ==
    <<[source |-> "llm", platform |-> platform, n |-> 0, category |-> "other",
       hasHashtags |-> wellFormed]>>

\* generateTrendingTopics whose catch is missing: a failure of messages.create escapes
generateTrendingTopics_uncaught(viaClient, platform, category, limit, reply) ==
    IF ~viaClient
    THEN [threw |-> FALSE, trends |-> getMockTrendingTopics(platform, category, limit)]
    ELSE IF reply = "apiError"
    THEN [threw |-> TRUE, trends |-> <<>>]
    ELSE IF reply \in {"noArray", "badJson", "nullElement"}
    THEN [threw |-> FALSE, trends |-> getMockTrendingTopics(platform, category, limit)]
    ELSE [threw |-> FALSE, trends |-> LlmTopics(platform, reply = "ok")]

\* generateTrendingTopics(platform, category, limit) given the LLM's reply:
\* no client, no array in the text, and anything thrown inside the try
\* (messages.create, JSON.parse, a null element in the map) give the mock table
generateTrendingTopics(viaClient, platform, category, limit, reply) ==
    IF ~viaClient
    THEN [threw |-> FALSE, trends |-> getMockTrendingTopics(platform, category, limit)]
    ELSE IF reply \in {"apiError", "noArray", "badJson", "nullElement"}
    THEN [threw |-> FALSE, trends |-> getMockTrendingTopics(platform, category, limit)]
    ELSE [threw |-> FALSE, trends |-> LlmTopics(platform, reply = "ok")]

\* the relatedHashtags of one topic (three per mock topic, two per LLM topic)
TagsOf(t) ==
    IF t.source = "mock"
    THEN <<[topic |-> t.n, tag |-> 1], [topic |-> t.n, tag |-> 2], [topic |-> t.n, tag |-> 3]>>
    ELSE <<[topic |-> t.n, tag |-> 1], [topic |-> t.n, tag |-> 2]>>

RECURSIVE AllTags(_)
AllTags(trends) ==
    IF trends = <<>> THEN <<>> ELSE TagsOf(Head(trends)) \o AllTags(Tail(trends))

\* analyzeHashtags(platform, trends): trend.relatedHashtags.forEach throws a
\* TypeError on a topic without relatedHashtags; the random popularity figures
\* are left out
analyzeHashtags(platform, trends) ==
    IF \E i \in 1..Len(trends) : ~trends[i].hasHashtags
    THEN [threw |-> TRUE, hashtags |-> <<>>]
    ELSE [threw |-> FALSE, hashtags |-> SubSeq(AllTags(trends), 1, MinOf(20, Len(AllTags(trends))))]

\* getBuzzPatterns(platform): BUZZ_PATTERN_TEMPLATES[platform] || []
getBuzzPatterns(platform) ==
    CASE platform = "threads" -> <<"threads-storytelling", "threads-educational", "threads-question">>
      [] platform = "instagram" -> <<"instagram-behind-the-scenes", "instagram-inspirational">>
      [] platform = "twitter" -> <<"twitter-controversial", "twitter-listicle">>
      [] OTHER -> <<>>

\* const { limit = 10 } = request
limitOf(request) == IF request.hasLimit THEN request.limit ELSE 10

\* getCacheKey(request): platform-(category || 'all')-(limit || 10)
getCacheKey(request) ==
    <<request.platform,
      IF request.category = "none" THEN "all" ELSE request.category,
      IF request.hasLimit /\ request.limit # 0 THEN request.limit ELSE 10>>

\* the expiry test with <= in place of <
isFresh_inclusive(cache, key, t) ==
    key \in DOMAIN cache /\ t - cache[key].timestamp <= cacheExpiryMs

\* cached && Date.now() - cached.timestamp < this.cacheExpiryMs
isFresh(cache, key, t) ==
    key \in DOMAIN cache /\ t - cache[key].timestamp < cacheExpiryMs

\* a cache write that also evicts the entries that have expired
cacheSet_evictExpired(cache, key, response, t) ==
    [k \in {j \in DOMAIN cache : t - cache[j].timestamp < cacheExpiryMs} \cup {key} |->
        IF k = key THEN [data |-> response, timestamp |-> t] ELSE cache[k]]

\* a cache write that keeps an entry that is already there
cacheSet_ifAbsent(cache, key, response, t) ==
    IF key \in DOMAIN cache THEN cache
    ELSE [k \in DOMAIN cache \cup {key} |->
            IF k = key THEN [data |-> response, timestamp |-> t] ELSE cache[k]]

\* this.cachedTrends.set(cacheKey, { data: response, timestamp: Date.now() })
cacheSet(cache, key, response, t) ==
    [k \in DOMAIN cache \cup {key} |->
        IF k = key THEN [data |-> response, timestamp |-> t] ELSE cache[k]]

\* the response object detectTrends builds; id stands for the object's identity
buildResponse(id, request, trends, hashtags, t) ==
    [id |-> id,
     trends |-> trends,
     recommendedHashtags |-> hashtags,
     buzzPatterns |-> IF request.includeBuzzPatterns THEN getBuzzPatterns(request.platform) ELSE <<>>,
     analyzedAt |-> t]

(***************************************************************************)
(* TrendDetector as a state machine.  A detectTrends call runs atomically  *)
(* from one await to the next: the cache check up to the await of          *)
(* generateTrendingTopics, then up to the await of analyzeHashtags (when   *)
(* hashtags are requested), then to its return.                            *)
(***************************************************************************)
Request(platform, category, hasLimit, limit, includeHashtags, includeBuzzPatterns) ==
    [platform |-> platform, category |-> category, hasLimit |-> hasLimit, limit |-> limit,
     includeHashtags |-> includeHashtags, includeBuzzPatterns |-> includeBuzzPatterns]

\* two requests on the key threads-all-10 (the second as the route's
\* comment-strategies action builds it), and one on another key
Requests ==
    {Request("threads", "none", FALSE, 0, TRUE, TRUE),
     Request("threads", "none", TRUE, 10, FALSE, FALSE),
     Request("threads", "business", TRUE, 1, TRUE, TRUE)}

\* a StrategyManager nobody calls
IdleStrategy ==
    /\ strategy = DEFAULT_STRATEGY
    /\ thrown = "none"
    /\ lastOp = "construct"
    /\ lastRatio = <<0, 1>>
    /\ lastJson = InvalidJson
    /\ lastUpdates = NoUpdates

\* new TrendDetector(apiKey): the client exists iff a key was given
InitTrend ==
    /\ client \in BOOLEAN
    /\ cachedTrends = EmptyCache
    /\ now = 0
    /\ calls = {}
    /\ genCount = 0
    /\ IdleStrategy
    /\ IdleScore
    /\ returned = NoReturn
    /\ IdleApp

\* detectTrends(request) up to its first await: return the cached response,
\* or start generateTrendingTopics.  At most two calls overlap.
DetectTrends(request) ==
    /\ Cardinality(calls) < 2
    /\ LET key == getCacheKey(request)
       IN  IF isFresh(cachedTrends, key, now)
           THEN /\ calls' = calls \cup
                        {[NewCall(request) EXCEPT !.pc = "returned",
                                                  !.result = cachedTrends[key].data]}
                /\ UNCHANGED genCount
           ELSE /\ genCount < MaxGenerations
                /\ genCount' = genCount + 1
                /\ calls' = calls \cup
                        {[NewCall(request) EXCEPT !.pc = "awaitTopics", !.viaClient = client,
                                                  !.generation = genCount + 1]}
    /\ UNCHANGED <<client, cachedTrends, now, strategyVars, scoreVars, queryVars, appVars>>

\* the tail of detectTrends: build the response, store it, return it
Complete(call, reply, trends, hashtags) ==
    LET response == buildResponse(call.generation, call.request, trends, hashtags, now)
    IN  /\ cachedTrends' = cacheSet(cachedTrends, getCacheKey(call.request), response, now)
        /\ calls' = (calls \ {call}) \cup
                {[call EXCEPT !.pc = "returned", !.reply = reply, !.trends = trends,
                              !.hashtags = hashtags, !.result = response]}

Reject(call, reply, error) ==
    /\ calls' = (calls \ {call}) \cup
            {[call EXCEPT !.pc = "rejected", !.reply = reply, !.error = error]}
    /\ UNCHANGED cachedTrends

\* generateTrendingTopics settles; detectTrends goes on to analyzeHashtags or,
\* with includeHashtags false, straight to its end
TopicsSettled(call, reply) ==
    /\ call.pc = "awaitTopics"
    /\ reply \in (IF call.viaClient THEN ReplyKinds ELSE {"none"})
    /\ LET req == call.request
           g == generateTrendingTopics(call.viaClient, req.platform, req.category, limitOf(req), reply)
           h == analyzeHashtags(req.platform, g.trends)
       IN  IF g.threw THEN Reject(call, reply, "APIError")
           ELSE IF ~req.includeHashtags THEN Complete(call, reply, g.trends, <<>>)
           ELSE IF h.threw THEN Reject(call, reply, "TypeError")
           ELSE /\ calls' = (calls \ {call}) \cup
                        {[call EXCEPT !.pc = "awaitHashtags", !.reply = reply,
                                      !.trends = g.trends, !.hashtags = h.hashtags]}
                /\ UNCHANGED cachedTrends
    /\ UNCHANGED <<client, now, genCount, strategyVars, scoreVars, queryVars, appVars>>

\* the await of analyzeHashtags resumes
HashtagsSettled(call) ==
    /\ call.pc = "awaitHashtags"
    /\ Complete(call, call.reply, call.trends, call.hashtags)
    /\ UNCHANGED <<client, now, genCount, strategyVars, scoreVars, queryVars, appVars>>

\* the caller takes the response or the exception
TakeResult(call) ==
    /\ call.pc \in {"returned", "rejected"}
    /\ calls' = calls \ {call}
    /\ UNCHANGED <<client, cachedTrends, now, genCount, strategyVars, scoreVars, queryVars, appVars>>

\* clearCache()
ClearCache ==
    /\ cachedTrends' = EmptyCache
    /\ UNCHANGED <<client, now, calls, genCount, strategyVars, scoreVars, queryVars, appVars>>

\* setApiKey(apiKey)
SetApiKey ==
    /\ client' = TRUE
    /\ UNCHANGED <<cachedTrends, now, calls, genCount, strategyVars, scoreVars, queryVars, appVars>>

\* time passes
Tick ==
    /\ now < MaxTime
    /\ now' = now + 1
    /\ UNCHANGED <<client, cachedTrends, calls, genCount, strategyVars, scoreVars, queryVars, appVars>>

NextTrend ==
    \/ \E request \in Requests : DetectTrends(request)
    \/ \E call \in calls, reply \in ReplyKinds \cup {"none"} : TopicsSettled(call, reply)
    \/ \E call \in calls : HashtagsSettled(call)
    \/ \E call \in calls : TakeResult(call)
    \/ ClearCache
    \/ SetApiKey
    \/ Tick

SpecTrend == InitTrend /\ [][NextTrend]_vars

(***************************************************************************)
(* Properties of TrendDetector                                             *)
(***************************************************************************)
\* the cache key as the specification words it: platform, category or 'all', limit (default 10)
KeyOf(request) ==
    <<request.platform,
      IF request.category = "none" THEN "all" ELSE request.category,
      IF request.hasLimit THEN request.limit ELSE 10>>

\* an entry for the key exists and was stored less than 30 minutes ago
StoredWithin30Min(key) ==
    \E k \in DOMAIN cachedTrends : k = key /\ now - cachedTrends[k].timestamp < 2

InFlight(call) == call.pc \in {"awaitTopics", "awaitHashtags"}

\* the calls that entered detectTrends in this step: a call enters either
\* awaiting its generation or already returned without one
Entered == {call \in calls' \ calls : call.pc = "awaitTopics" \/ call.generation = 0}

\* C3: detectTrends(request) starts a generation iff the cache has no entry
\* for the request's key or the entry is 30 minutes old or older; otherwise it
\* returns the stored response itself, starts no generation and leaves the
\* cache alone.
C3_GenerationIffNoFreshEntry ==
    [][\A call \in Entered :
            LET key == KeyOf(call.request)
            IN  IF StoredWithin30Min(key)
                THEN /\ call.pc = "returned"
                     /\ call.result = cachedTrends[key].data
                     /\ genCount' = genCount
                     /\ cachedTrends' = cachedTrends
                ELSE /\ call.pc = "awaitTopics"
                     /\ genCount' = genCount + 1]_vars

\* a call answered from the cache some time after the response was stored
C3_Witness ==
    \E call \in calls :
        /\ call.pc = "returned"
        /\ call.generation = 0
        /\ call.result.id > 0
        /\ now > call.result.analyzedAt

\* C6: with an API key, a reply without a JSON array, one that fails to parse
\* or one that parses to a malformed array still ends in a response built
\* from the mock table; detectTrends never throws for it.
C6_BadReplyFallsBackToMock ==
    \A call \in calls :
        (call.viaClient /\ call.reply \in {"noArray", "badJson", "nullElement", "malformed"}) =>
            /\ call.pc # "rejected"
            /\ call.pc = "returned" =>
                    call.result.trends =
                        getMockTrendingTopics(call.request.platform, call.request.category,
                                              limitOf(call.request))

C8_NoCoalescing ==
    [][/\ \A c1, c2 \in calls :
            (c1 # c2 /\ InFlight(c1) /\ InFlight(c2)
                /\ KeyOf(c1.request) = KeyOf(c2.request)) =>
                    /\ c1.generation > 0
                    /\ c2.generation > 0
                    /\ c1.generation # c2.generation
       /\ \A c \in calls, r \in calls' \ calls :
            (InFlight(c) /\ r.generation = c.generation /\ r.pc = "returned") =>
                /\ r.result.id = c.generation
                /\ cachedTrends'[KeyOf(c.request)].data = r.result
                /\ cachedTrends'[KeyOf(c.request)].timestamp = now
                /\ calls' \ {r} = calls \ {c}]_vars

\* the later of two overlapping calls on one key has completed and stored its
\* own response while the earlier one is still in flight
C8_Witness ==
    \E c1, c2 \in calls :
        /\ KeyOf(c1.request) = KeyOf(c2.request)
        /\ InFlight(c2)
        /\ c1.pc = "returned"
        /\ c1.generation > c2.generation
        /\ c2.generation > 0
        /\ cachedTrends[KeyOf(c1.request)].data.id = c1.generation

\* C25: the response a detectTrends call returns follows the flags of its own
\* request, whatever was served and cached before: recommendedHashtags is
\* empty with includeHashtags false and the hashtag analysis of the returned
\* topics otherwise, buzzPatterns is empty with includeBuzzPatterns false and
\* the platform's patterns otherwise.
C25_ResponseHonoursOwnFlags ==
    \A call \in calls :
        call.pc = "returned" =>
            /\ call.result.recommendedHashtags =
                    IF call.request.includeHashtags
                    THEN analyzeHashtags(call.request.platform, call.result.trends).hashtags
                    ELSE <<>>
            /\ call.result.buzzPatterns =
                    IF call.request.includeBuzzPatterns
                    THEN getBuzzPatterns(call.request.platform)
                    ELSE <<>>

\* the keys of the calls that complete in this step
CompletedKeys ==
    {KeyOf(c.request) : c \in {r \in calls' \ calls : r.pc = "returned" /\ r.generation > 0}}

\* C21: a step that is not clearCache keeps every key of the cache and
\* changes no entry but that of the key of a detectTrends call completing in
\* the step, however old the other entries are; a step that removes a key
\* removes all of them.
C21_CacheOnlyGrows ==
    [][\/ /\ DOMAIN cachedTrends \subseteq DOMAIN cachedTrends'
          /\ DOMAIN cachedTrends' \subseteq DOMAIN cachedTrends \cup CompletedKeys
          /\ \A k \in DOMAIN cachedTrends \ CompletedKeys : cachedTrends'[k] = cachedTrends[k]
       \/ /\ DOMAIN cachedTrends' = {}
          /\ calls' = calls]_vars

\* the cache holds an entry that expired before the entry of another key was
\* stored
C21_Witness ==
    \E k1, k2 \in DOMAIN cachedTrends :
        /\ k1 # k2
        /\ cachedTrends[k2].timestamp - cachedTrends[k1].timestamp >= 2
        /\ now - cachedTrends[k1].timestamp >= 2

(***************************************************************************)
(* scoreCalculator: the four sub-scores, the overall score and the         *)
(* recommendations.  Terms are exact rationals; Math.round rounds the sum. *)
(***************************************************************************)
N(i) == <<i, 1>>

\* a * b on JS numbers (finite operands)
NumMul(a, b) == Rat(a[1] * b[1], a[2] * b[2])

\* Math.round with truncation instead of rounding
MathRound_floor(x) == x[1] \div x[2]

\* Math.round(x) for a finite x: the integer nearest to x, halves going up
MathRound(x) == (2 * x[1] + x[2]) \div (2 * x[2])

\* Math.min(cap, (count / per) * cap)
CappedTerm(cap, count, per) == MathMin(N(cap), NumMul(NumDiv(N(count), N(per)), N(cap)))

\* the engagement score with the reply ratio taken as replies over comments
calculateEngagementScore_inverseReply(d) ==
    LET likeScore == CappedTerm(25, d.likesGiven, 50)
        commentScore == CappedTerm(30, d.commentsGiven, 20)
        shareScore == CappedTerm(20, d.sharesGiven, 10)
        replyRatio == IF d.commentsGiven > 0
                      THEN MathMin(One, NumDiv(N(d.repliesReceived), N(d.commentsGiven)))
                      ELSE Half
        replyScore == NumMul(replyRatio, N(25))
    IN  MathRound(NumAdd(NumAdd(NumAdd(likeScore, commentScore), shareScore), replyScore))

\* calculateEngagementScore(data).score
calculateEngagementScore(d) ==
    LET likeScore == CappedTerm(25, d.likesGiven, 50)
        commentScore == CappedTerm(30, d.commentsGiven, 20)
        shareScore == CappedTerm(20, d.sharesGiven, 10)
        replyRatio == IF d.repliesReceived > 0
                      THEN MathMin(One, NumDiv(N(d.commentsGiven), N(d.repliesReceived)))
                      ELSE Half
        replyScore == NumMul(replyRatio, N(25))
    IN  MathRound(NumAdd(NumAdd(NumAdd(likeScore, commentScore), shareScore), replyScore))

goldenHours == {7, 8, 9, 12, 13, 19, 20, 21, 22}

\* data.postTimings.filter(h => goldenHours.includes(h)).length
goldenHourPosts(d) == Len(SelectSeq(d.postTimings, LAMBDA h : h \in goldenHours))

\* calculateConsistencyScore(data).score
calculateConsistencyScore(d) ==
    LET frequencyVariance == IF d.postsLastWeek > 0
                             THEN NumDiv(N(Abs(d.postsThisWeek - d.postsLastWeek)), N(d.postsLastWeek))
                             ELSE One
        stabilityScore == MathMax(N(0), NumSub(N(40), NumMul(frequencyVariance, N(40))))
        frequencyDiff == Abs(d.postsThisWeek - 5)
        frequencyScore == MathMax(N(0), N(30 - frequencyDiff * 5))
        timingRatio == IF Len(d.postTimings) > 0
                       THEN NumDiv(N(goldenHourPosts(d)), N(Len(d.postTimings)))
                       ELSE N(0)
        timingScore == NumMul(timingRatio, N(30))
    IN  MathRound(NumAdd(NumAdd(stabilityScore, frequencyScore), timingScore))

\* calculateTrendScore(data).score
calculateTrendScore(d) ==
    LET hashtagScore == CappedTerm(35, d.trendingHashtagsUsed, 5)
        topicScore == CappedTerm(35, d.trendingTopicsEngaged, 3)
        earlyScore == CappedTerm(30, d.earlyTrendEngagement, 2)
    IN  MathRound(NumAdd(NumAdd(hashtagScore, topicScore), earlyScore))

\* calculateCommunityScore(data).score
calculateCommunityScore(d) ==
    LET followerScore == CappedTerm(30, d.followersGained, 10)
        mentionScore == CappedTerm(25, d.mentionsReceived, 5)
        savedScore == CappedTerm(25, d.savedByOthers, 10)
        profileScore == CappedTerm(20, d.profileVisits, 50)
    IN  MathRound(NumAdd(NumAdd(NumAdd(followerScore, mentionScore), savedScore), profileScore))

\* the overall score with the engagement and consistency weights exchanged
calculateOverallScore_swapped(engagementScore, consistencyScore, trendScore, communityScore) ==
    MathRound(NumAdd(NumAdd(NumAdd(NumMul(N(engagementScore), <<25, 100>>),
                                   NumMul(N(consistencyScore), <<35, 100>>)),
                            NumMul(N(trendScore), <<20, 100>>)),
                     NumMul(N(communityScore), <<20, 100>>)))

\* calculateOverallScore: weights 0.35, 0.25, 0.20, 0.20
calculateOverallScore(engagementScore, consistencyScore, trendScore, communityScore) ==
    MathRound(NumAdd(NumAdd(NumAdd(NumMul(N(engagementScore), <<35, 100>>),
                                   NumMul(N(consistencyScore), <<25, 100>>)),
                            NumMul(N(trendScore), <<20, 100>>)),
                     NumMul(N(communityScore), <<20, 100>>)))

Recommendation(id, priority, category, expectedImpact) ==
    [id |-> id, priority |-> priority, category |-> category, expectedImpact |-> expectedImpact]

priorityOrder(priority) == CASE priority = "high" -> 0 [] priority = "medium" -> 1 [] OTHER -> 2

Reverse(seq) == [i \in 1..Len(seq) |-> seq[Len(seq) + 1 - i]]

\* a sort by priority that is not stable: equal priorities come out reversed
sortByPriority_unstable(recs) ==
    SelectSeq(Reverse(recs), LAMBDA r : priorityOrder(r.priority) = 0)
        \o SelectSeq(Reverse(recs), LAMBDA r : priorityOrder(r.priority) = 1)
        \o SelectSeq(Reverse(recs), LAMBDA r : priorityOrder(r.priority) = 2)

\* recommendations.sort((a, b) => priorityOrder[a.priority] - priorityOrder[b.priority]):
\* Array.prototype.sort is stable
sortByPriority(recs) ==
    SelectSeq(recs, LAMBDA r : priorityOrder(r.priority) = 0)
        \o SelectSeq(recs, LAMBDA r : priorityOrder(r.priority) = 1)
        \o SelectSeq(recs, LAMBDA r : priorityOrder(r.priority) = 2)

\* generateRecommendations(data, engagementScore, consistencyScore, trendScore, communityScore)
generateRecommendations(d, engagementScore, consistencyScore, trendScore, communityScore) ==
    LET eng1 == IF engagementScore < 70 /\ d.commentsGiven < 10
                THEN <<Recommendation("eng-1", "high", "engagement", 8)>> ELSE <<>>
        eng2 == IF engagementScore < 70 /\ d.likesGiven < 30
                THEN <<Recommendation("eng-2", "medium", "engagement", 5)>> ELSE <<>>
        con1 == IF consistencyScore < 70 /\ d.postsThisWeek < 3
                THEN <<Recommendation("con-1", "high", "consistency", 7)>> ELSE <<>>
        \* goldenHourPosts < data.postTimings.length * 0.5
        con2 == IF consistencyScore < 70 /\ 2 * goldenHourPosts(d) < Len(d.postTimings)
                THEN <<Recommendation("con-2", "medium", "consistency", 5)>> ELSE <<>>
        trend1 == IF trendScore < 70 /\ d.trendingTopicsEngaged < 2
                  THEN <<Recommendation("trend-1", "high", "trend", 9)>> ELSE <<>>
        com1 == IF communityScore < 70 /\ d.savedByOthers < 5
                THEN <<Recommendation("com-1", "medium", "community", 6)>> ELSE <<>>
    IN  sortByPriority(eng1 \o eng2 \o con1 \o con2 \o trend1 \o com1)

\* calculatePlatformScore(platform, data): score and recommendations (the
\* factor texts, the id, the timestamps and the random demo history are left out)
calculatePlatformScore(d) ==
    LET e == calculateEngagementScore(d)
        c == calculateConsistencyScore(d)
        t == calculateTrendScore(d)
        m == calculateCommunityScore(d)
    IN  [computed |-> TRUE,
         overallScore |-> calculateOverallScore(e, c, t, m),
         engagementScore |-> e, consistencyScore |-> c, trendScore |-> t, communityScore |-> m,
         recommendations |-> generateRecommendations(d, e, c, t, m)]

\* getScoreRank with > in place of >=
getScoreRank_strict(score) ==
    IF NumLt(N(90), score) THEN "S"
    ELSE IF NumLt(N(80), score) THEN "A"
    ELSE IF NumLt(N(70), score) THEN "B"
    ELSE IF NumLt(N(50), score) THEN "C"
    ELSE "D"

\* getScoreRank(score).rank
getScoreRank(score) ==
    IF NumLe(N(90), score) THEN "S"
    ELSE IF NumLe(N(80), score) THEN "A"
    ELSE IF NumLe(N(70), score) THEN "B"
    ELSE IF NumLe(N(50), score) THEN "C"
    ELSE "D"

(***************************************************************************)
(* The score calculator as a state machine: a caller hands in behaviour    *)
(* data, calculatePlatformScore returns the result for it.                 *)
(***************************************************************************)
\* longest postTimings array
MaxTimings == 2

TimingArrays == UNION {[1..n -> {3, 8}] : n \in 0..MaxTimings}

BehaviorInputs ==
    {BehaviorData(likes, comments, shares, replies, thisWeek, lastWeek, timings,
                  hashtagsUsed, topics, early, followers, mentions, saved, visits) :
        likes \in {0, 60}, comments \in {0, 5, 25}, shares \in {0, 12}, replies \in {0, 7},
        thisWeek \in {0, 2, 5}, lastWeek \in {0, 5}, timings \in TimingArrays,
        hashtagsUsed \in {0, 6}, topics \in {0, 3}, early \in {0, 2},
        followers \in {0, 10}, mentions \in {0, 5}, saved \in {0, 12}, visits \in {0, 50}}

InitScore ==
    /\ data \in BehaviorInputs
    /\ result = NoResult
    /\ IdleStrategy
    /\ IdleTrend
    /\ returned = NoReturn
    /\ IdleApp

CalculatePlatformScore ==
    /\ ~result.computed
    /\ result' = calculatePlatformScore(data)
    /\ UNCHANGED <<data, strategyVars, trendVars, queryVars, appVars>>

NextScore == CalculatePlatformScore

SpecScore == InitScore /\ [][NextScore]_vars

(***************************************************************************)
(* Properties of the score calculator                                      *)
(***************************************************************************)
\* 100 times the weighted sum of the returned sub-scores
WeightedHundredths(r) ==
    35 * r.engagementScore + 25 * r.consistencyScore + 20 * r.trendScore + 20 * r.communityScore

\* C4: for valid behaviour data each returned sub-score is an integer in
\* 0..100 and overallScore is the weighted sum of the returned sub-scores
\* (weights 0.35, 0.25, 0.20, 0.20) rounded to the nearest integer.
C4_ScoresInRangeAndWeighted ==
    result.computed =>
        /\ result.engagementScore \in 0..100
        /\ result.consistencyScore \in 0..100
        /\ result.trendScore \in 0..100
        /\ result.communityScore \in 0..100
        /\ 100 * result.overallScore - 50 <= WeightedHundredths(result)
        /\ WeightedHundredths(result) < 100 * result.overallScore + 50

\* a result with a sub-score at its cap, another at zero, and a weighted sum
\* that is not a whole number
C4_Witness ==
    /\ result.computed
    /\ result.engagementScore = 100
    /\ result.trendScore = 0
    /\ WeightedHundredths(result) % 100 # 0

\* C5 as stated: all-zero behaviour data scores 0 overall and 0 in each sub-score.
C5_ZeroDataScoresZero ==
    (result.computed /\ data = ZeroData) =>
        /\ result.overallScore = 0
        /\ result.engagementScore = 0
        /\ result.consistencyScore = 0
        /\ result.trendScore = 0
        /\ result.communityScore = 0

\* C5 as the code has it: all-zero behaviour data scores 0 for trend and
\* community, 13 for engagement (the reply ratio defaults to 0.5), 5 for
\* consistency (30 - 5 * |0 - 5| for the posting frequency) and 6 overall.
C5_ZeroDataScores ==
    (result.computed /\ data = ZeroData) =>
        /\ result.trendScore = 0
        /\ result.communityScore = 0
        /\ result.engagementScore = 13
        /\ result.consistencyScore = 5
        /\ result.overallScore = 6

\* the all-zero data has been scored
C5_Witness == result.computed /\ data = ZeroData

\* largest commentsGiven of the engagement inputs
MaxCommentsGiven == 30

\* behaviour data that varies the four inputs of the engagement score only
EngagementInputs ==
    {BehaviorData(likes, comments, shares, replies, 0, 0, <<>>, 0, 0, 0, 0, 0, 0, 0) :
        likes \in {0, 20, 60}, comments \in 0..MaxCommentsGiven, shares \in {0, 3, 12},
        replies \in {0, 7, 40}}

InitEngagement ==
    /\ data \in EngagementInputs
    /\ result = NoResult
    /\ IdleStrategy
    /\ IdleTrend
    /\ returned = NoReturn
    /\ IdleApp

SpecEngagement == InitEngagement /\ [][NextScore]_vars

\* the behaviour data with commentsGiven raised to more and nothing else changed
WithComments(d, more) == [d EXCEPT !.commentsGiven = more]

\* C13: raising commentsGiven, every other field of the behaviour data held
\* fixed, never lowers the engagementScore calculatePlatformScore returns.
C13_CommentsMonotone ==
    result.computed =>
        \A more \in data.commentsGiven..MaxCommentsGiven :
            calculateEngagementScore(WithComments(data, more)) >= result.engagementScore

\* a result below the cap for which more comments give a strictly higher
\* engagement score, with replies received in between the two counts
C13_Witness ==
    /\ result.computed
    /\ data.commentsGiven = 5
    /\ data.repliesReceived = 7
    /\ calculateEngagementScore(WithComments(data, 8)) > result.engagementScore
    /\ calculateEngagementScore(WithComments(data, 25)) > calculateEngagementScore(WithComments(data, 8))

\* the order in which generateRecommendations visits the categories
categoryOrder(category) ==
    CASE category = "engagement" -> 1 [] category = "consistency" -> 2
      [] category = "trend" -> 3 [] category = "community" -> 4

\* the rank of a priority: high before medium before low
priorityRank(priority) ==
    IF priority = "high" THEN 1 ELSE IF priority = "medium" THEN 2 ELSE 3

\* C14: the returned recommendations list every high priority before every
\* medium one and every medium one before every low one, and those of equal
\* priority in generation order: engagement, consistency, trend, community.
C14_RecommendationsSortedStable ==
    result.computed =>
        \A i, j \in 1..Len(result.recommendations) :
            i < j =>
                LET a == result.recommendations[i]
                    b == result.recommendations[j]
                IN  /\ priorityRank(a.priority) <= priorityRank(b.priority)
                    /\ a.priority = b.priority =>
                            categoryOrder(a.category) < categoryOrder(b.category)

\* all six recommendations were generated, the high and medium ones
\* interleaved, and returned with the three high ones first
C14_Witness ==
    /\ result.computed
    /\ Len(result.recommendations) = 6
    /\ \A i \in 1..3 : result.recommendations[i].priority = "high"
    /\ \A i \in 4..6 : result.recommendations[i].priority = "medium"

(***************************************************************************)
(* POST /api/score.  A request body gives a platform and, optionally, a    *)
(* partial behaviorData object: has is the set of keys present, notNumbers *)
(* the keys whose value is not a number (or, for postTimings, not an       *)
(* array).  The optional AI analysis, which does not touch the score, is   *)
(* left out.                                                               *)
(***************************************************************************)
numericFields ==
    {"likesGiven", "commentsGiven", "sharesGiven", "repliesReceived", "postsThisWeek",
     "postsLastWeek", "averagePostsPerWeek", "trendingHashtagsUsed", "trendingTopicsEngaged",
     "earlyTrendEngagement", "followersGained", "mentionsReceived", "savedByOthers",
     "profileVisits"}

BehaviorFields == numericFields \cup {"postTimings"}

PartialBehavior(has, notNumbers, values) == [has |-> has, notNumbers |-> notNumbers, values |-> values]

\* validateBehaviorData(data) for an object
validateBehaviorData(d) ==
    /\ \A field \in numericFields \cap d.has :
            field \notin d.notNumbers /\ ~(d.values[field] < 0)
    /\ "postTimings" \in d.has =>
            /\ "postTimings" \notin d.notNumbers
            /\ \A i \in 1..Len(d.values.postTimings) :
                    ~(d.values.postTimings[i] < 0 \/ d.values.postTimings[i] > 23)

\* mergeBehaviorData with || in place of ??
mergeBehaviorData_or(partial, defaults) ==
    [field \in BehaviorFields |->
        IF field \in partial.has /\ partial.values[field] # 0
        THEN partial.values[field] ELSE defaults[field]]

\* mergeBehaviorData(partial), defaults being the generateSampleBehaviorData()
\* it draws: partial.field ?? defaults.field, and no key that is present in a
\* validated object is null or undefined
mergeBehaviorData(partial, defaults) ==
    [field \in BehaviorFields |->
        IF field \in partial.has THEN partial.values[field] ELSE defaults[field]]

\* three of the records generateSampleBehaviorData() can return: every
\* random draw at its least, at its greatest, and in between
SampleData ==
    {[BehaviorData(20, 5, 2, 5, 2, 2, <<7, 8>>, 1, 1, 0, 2, 1, 3, 20)
        EXCEPT !.averagePostsPerWeek = 3],
     [BehaviorData(99, 29, 16, 24, 8, 8, <<7, 8, 12, 19, 20>>, 8, 5, 2, 16, 8, 17, 99)
        EXCEPT !.averagePostsPerWeek = 7],
     [BehaviorData(60, 12, 9, 10, 5, 4, <<7, 8, 12>>, 4, 3, 1, 9, 4, 10, 50)
        EXCEPT !.averagePostsPerWeek = 5]}

\* behaviorData objects: empty, one numeric field at 0, an empty postTimings,
\* two fields, every field at zero, and three objects that do not validate
PartialBehaviors ==
    {PartialBehavior({}, {}, ZeroData)}
        \cup {PartialBehavior({field}, {}, ZeroData) : field \in numericFields}
        \cup {PartialBehavior({"postTimings"}, {}, ZeroData),
              PartialBehavior({"commentsGiven", "postTimings"}, {},
                              [ZeroData EXCEPT !.commentsGiven = 12, !.postTimings = <<3, 8>>]),
              PartialBehavior(BehaviorFields, {}, ZeroData),
              PartialBehavior({"likesGiven"}, {}, [ZeroData EXCEPT !.likesGiven = -1]),
              PartialBehavior({"sharesGiven"}, {"sharesGiven"}, ZeroData),
              PartialBehavior({"postTimings"}, {}, [ZeroData EXCEPT !.postTimings = <<8, 24>>])}

ScoreBody(platform, hasBehaviorData, behaviorData) ==
    [platform |-> platform, hasBehaviorData |-> hasBehaviorData, behaviorData |-> behaviorData]

\* request bodies; the platform "none" stands for a body without platform
ScoreBodies ==
    {ScoreBody(platform, FALSE, PartialBehavior({}, {}, ZeroData)) :
        platform \in {"threads", "instagram", "twitter", "myspace", "none"}}
        \cup {ScoreBody(platform, TRUE, partial) :
                platform \in {"threads", "twitter", "myspace"}, partial \in PartialBehaviors}

InitScoreRoute ==
    /\ IdleStrategy
    /\ IdleTrend
    /\ IdleScore
    /\ returned = NoReturn
    /\ IdleApp

\* POST(request) with a body that parses: 400 for a bad platform or bad
\* behaviorData, otherwise the score of the merged (or sampled) data
PostScore(body, sample) ==
    LET validPlatform == body.platform \in {"threads", "instagram", "twitter"}
        validData == ~body.hasBehaviorData \/ validateBehaviorData(body.behaviorData)
        fullBehaviorData == IF body.hasBehaviorData
                            THEN mergeBehaviorData(body.behaviorData, sample)
                            ELSE sample
    IN  /\ IF validPlatform /\ validData
           THEN /\ data' = fullBehaviorData
                /\ result' = calculatePlatformScore(fullBehaviorData)
                /\ returned' = [op |-> "POST /api/score", status |-> 200, body |-> body,
                                sample |-> sample,
                                rank |-> getScoreRank(N(calculatePlatformScore(fullBehaviorData).overallScore))]
           ELSE /\ data' = ZeroData
                /\ result' = NoResult
                /\ returned' = [op |-> "POST /api/score", status |-> 400, body |-> body]
        /\ UNCHANGED <<strategyVars, trendVars, appVars>>

NextScoreRoute == \E body \in ScoreBodies, sample \in SampleData : PostScore(body, sample)

SpecScoreRoute == InitScoreRoute /\ [][NextScoreRoute]_vars

(***************************************************************************)
(* GET and POST /api/trends.  Each request builds its own TrendDetector,   *)
(* so the route is modelled up to the detectTrends call it makes: the      *)
(* answer records the detection request passed (or that none was), and     *)
(* whether the call resolved (200) or rejected (500).  A query parameter   *)
(* is absent (searchParams.get gives null) or a text; the limit parameter  *)
(* is a sequence of characters, which parseInt reads.  A JSON body member  *)
(* is undefined, null, a number or a string.                               *)
(***************************************************************************)
isValidPlatform(platform) == platform \in {"threads", "instagram", "twitter"}

isValidCategory(category) ==
    category \in {"entertainment", "technology", "lifestyle", "business", "news", "sports",
                  "education", "other"}

Digits == <<"0", "1", "2", "3", "4", "5", "6", "7", "8", "9">>

IsDigit(c) == \E i \in 1..10 : Digits[i] = c

DigitValue(c) == (CHOOSE i \in 1..10 : Digits[i] = c) - 1

RECURSIVE parseDigits(_, _, _)
\* the value of the longest run of digits of text that starts at position i
parseDigits(text, i, acc) ==
    IF i > Len(text) \/ ~IsDigit(text[i]) THEN acc
    ELSE parseDigits(text, i + 1, acc * 10 + DigitValue(text[i]))

\* parseInt that reads the whole text: a text with any other character is NaN
parseInt_strict(text) ==
    LET start == IF Len(text) > 0 /\ text[1] = "-" THEN 2 ELSE 1
    IN  IF start > Len(text) \/ \E i \in start..Len(text) : ~IsDigit(text[i]) THEN NaN
        ELSE Rat((IF start = 2 THEN -1 ELSE 1) * parseDigits(text, start, 0), 1)

\* parseInt(text, 10): an optional sign, then the leading digits; NaN when
\* there is none
parseInt(text) ==
    LET start == IF Len(text) > 0 /\ text[1] = "-" THEN 2 ELSE 1
    IN  IF start > Len(text) \/ ~IsDigit(text[start]) THEN NaN
        ELSE Rat((IF start = 2 THEN -1 ELSE 1) * parseDigits(text, start, 0), 1)

Absent == [present |-> FALSE, text |-> ""]

Param(text) == [present |-> TRUE, text |-> text]

AbsentLimit == [present |-> FALSE, text |-> <<>>]

\* limit=, 0, 1, 10, 50, 51, -1, abc, 5a
LimitParams ==
    {AbsentLimit} \cup
    {[present |-> TRUE, text |-> t] :
        t \in {<<>>, <<"0">>, <<"1">>, <<"1", "0">>, <<"5", "0">>, <<"5", "1">>, <<"-", "1">>,
               <<"a", "b", "c">>, <<"5", "a">>}}

Query(platform, category, limit, includeHashtags, action) ==
    [platform |-> platform, category |-> category, limit |-> limit,
     includeHashtags |-> includeHashtags, action |-> action]

Queries ==
    {Query(platform, category, limit, includeHashtags, action) :
        platform \in {Absent, Param("threads"), Param("twitter"), Param("myspace")},
        category \in {Absent, Param("news"), Param("gossip")},
        limit \in LimitParams,
        includeHashtags \in {Absent, Param("false")},
        action \in {Absent, Param("comment-strategies")}}

JsonUndefined == [type |-> "undefined", num |-> 0, str |-> ""]

JsonNull == [type |-> "null", num |-> 0, str |-> ""]

JsonNumber(n) == [type |-> "number", num |-> n, str |-> ""]

JsonString(str) == [type |-> "string", num |-> 0, str |-> str]

\* !v for a JSON value
Falsy(v) ==
    \/ v.type \in {"undefined", "null"}
    \/ v.type = "number" /\ v.num = 0
    \/ v.type = "string" /\ v.str = ""

TrendsBody(platform, category, limit) == [platform |-> platform, category |-> category, limit |-> limit]

TrendsBodies ==
    {TrendsBody(platform, category, limit) :
        platform \in {JsonUndefined, JsonString("threads"), JsonString("instagram"),
                      JsonString("myspace"), JsonNumber(1)},
        category \in {JsonUndefined, JsonString("news"), JsonString("gossip")},
        limit \in {JsonUndefined, JsonNull, JsonString("10")}
                    \cup {JsonNumber(n) : n \in {-1, 0, 1, 10, 50, 51}}}

NoDetection == [ran |-> FALSE, platform |-> "", category |-> "", limit |-> NaN, includeHashtags |-> FALSE]

Detection(platform, category, limit, includeHashtags) ==
    [ran |-> TRUE, platform |-> platform, category |-> category, limit |-> limit,
     includeHashtags |-> includeHashtags]

InitTrendsRoute ==
    /\ IdleStrategy
    /\ IdleTrend
    /\ IdleScore
    /\ returned = NoReturn
    /\ IdleApp

\* GET(request); resolved says whether the detectTrends call resolves
GetTrends(query, resolved) ==
    LET platform == query.platform
        category == query.category
        limit == IF query.limit.present /\ query.limit.text # <<>>
                 THEN parseInt(query.limit.text) ELSE <<10, 1>>
        badPlatform == ~platform.present \/ platform.text = "" \/ ~isValidPlatform(platform.text)
        badCategory == category.present /\ category.text # "" /\ ~isValidCategory(category.text)
        badLimit == limit = NaN \/ NumLt(limit, <<1, 1>>) \/ NumLt(<<50, 1>>, limit)
        commentStrategies == query.action.present /\ query.action.text = "comment-strategies"
        includeHashtags == ~(query.includeHashtags.present /\ query.includeHashtags.text = "false")
    IN  /\ returned' =
               IF badPlatform \/ badCategory \/ badLimit
               THEN [op |-> "GET /api/trends", status |-> 400, query |-> query,
                     detect |-> NoDetection]
               ELSE [op |-> "GET /api/trends", status |-> IF resolved THEN 200 ELSE 500,
                     query |-> query,
                     detect |-> Detection(platform.text,
                                          IF category.present THEN category.text ELSE "",
                                          limit,
                                          IF commentStrategies THEN FALSE ELSE includeHashtags)]
        /\ UNCHANGED <<strategyVars, trendVars, scoreVars, appVars>>

\* POST(request) with a body that parses to an object
PostTrends(body, resolved) ==
    LET limit == IF Falsy(body.limit) THEN JsonNumber(10) ELSE body.limit
        badPlatform == Falsy(body.platform) \/ body.platform.type # "string"
                           \/ ~isValidPlatform(body.platform.str)
        badCategory == ~Falsy(body.category)
                           /\ (body.category.type # "string" \/ ~isValidCategory(body.category.str))
        badLimit == limit.type # "number" \/ limit.num < 1 \/ limit.num > 50
    IN  /\ returned' =
               IF badPlatform \/ badCategory \/ badLimit
               THEN [op |-> "POST /api/trends", status |-> 400, body |-> body,
                     detect |-> NoDetection]
               ELSE [op |-> "POST /api/trends", status |-> IF resolved THEN 200 ELSE 500,
                     body |-> body,
                     detect |-> Detection(body.platform.str, body.category.str,
                                          <<limit.num, 1>>, TRUE)]
        /\ UNCHANGED <<strategyVars, trendVars, scoreVars, appVars>>

NextTrendsRoute ==
    \/ \E query \in Queries, resolved \in BOOLEAN : GetTrends(query, resolved)
    \/ \E body \in TrendsBodies, resolved \in BOOLEAN : PostTrends(body, resolved)

SpecTrendsRoute == InitTrendsRoute /\ [][NextTrendsRoute]_vars

(***************************************************************************)
(* ClaudeClient.sendMessage as a state machine.  SendMessage is the        *)
(* synchronous part of a call, up to the await of the API; failed tells    *)
(* whether the API call, when one is made, fails.  returned.after is the   *)
(* time at which the rejection before this call said to come back, or -1.  *)
(***************************************************************************)
InitLimiter ==
    /\ IdleStrategy
    /\ IdleTrend
    /\ IdleScore
    /\ returned = NoReturn
    /\ IdleLimiter
    /\ IdleToast
    /\ IdleStore

SendMessage(failed) ==
    LET after == IF returned.op = "sendMessage" /\ returned.limited
                 THEN returned.at + returned.retryAfter ELSE -1
    IN  /\ IF ~canRequest(requestTimes, clock)
           THEN /\ requestTimes' = cleanup(requestTimes, clock)
                /\ sent' = sent
                /\ returned' = [op |-> "sendMessage", limited |-> TRUE, called |-> FALSE,
                                type |-> "rate_limit", status |-> 429,
                                retryAfter |-> getWaitTime(requestTimes, clock),
                                at |-> clock, after |-> after]
           ELSE /\ requestTimes' = Append(cleanup(requestTimes, clock), clock)
                /\ sent' = Append(sent, clock)
                /\ returned' = [op |-> "sendMessage", limited |-> FALSE, called |-> TRUE,
                                type |-> IF failed THEN "server_error" ELSE "none",
                                status |-> IF failed THEN 500 ELSE 200,
                                retryAfter |-> 0, at |-> clock, after |-> after]
        /\ UNCHANGED <<strategyVars, trendVars, scoreVars, clock, toastVars, storeVars>>

\* time passes
TickClock ==
    /\ clock < MaxClock
    /\ clock' = clock + 1
    /\ UNCHANGED <<strategyVars, trendVars, scoreVars, queryVars, requestTimes, sent, toastVars, storeVars>>

NextLimiter ==
    \/ \E failed \in BOOLEAN : SendMessage(failed)
    \/ TickClock

SpecLimiter == InitLimiter /\ [][NextLimiter]_vars

(***************************************************************************)
(* The toast store as a state machine, with one toastPromise call at a     *)
(* time.  ToastPromise is the call up to its await, Settle the rest of it  *)
(* once the promise has settled; the message callbacks are strings.        *)
(***************************************************************************)
\* toasts made in one behaviour
MaxToastIds == 4

\* setMaxToasts is called with 0..MaxMaxToasts
MaxMaxToasts == 2

InitToast ==
    /\ IdleStrategy
    /\ IdleTrend
    /\ IdleScore
    /\ returned = NoReturn
    /\ IdleLimiter
    /\ IdleToast
    /\ IdleStore

\* toast.error(title) or toast.warning(title)
AddToast(type) ==
    /\ nextId <= MaxToastIds
    /\ toasts' = addToast(toasts, maxToasts, Toast(nextId, type, "title", defaultDuration(type)))
    /\ nextId' = nextId + 1
    /\ returned' = [op |-> "addToast", id |-> nextId]
    /\ UNCHANGED <<strategyVars, trendVars, scoreVars, limiterVars, maxToasts, pending, storeVars>>

RemoveToast(id) ==
    /\ toasts' = removeToast(toasts, id)
    /\ returned' = [op |-> "removeToast", id |-> id]
    /\ UNCHANGED <<strategyVars, trendVars, scoreVars, limiterVars, maxToasts, nextId, pending, storeVars>>

ClearAllToasts ==
    /\ toasts' = <<>>
    /\ returned' = [op |-> "clearAllToasts"]
    /\ UNCHANGED <<strategyVars, trendVars, scoreVars, limiterVars, maxToasts, nextId, pending, storeVars>>

SetMaxToasts(max) ==
    /\ maxToasts' = max
    /\ returned' = [op |-> "setMaxToasts", max |-> max]
    /\ UNCHANGED <<strategyVars, trendVars, scoreVars, limiterVars, toasts, nextId, pending, storeVars>>

\* toastPromise(promise, messages) up to `await promise`
ToastPromise ==
    /\ pending.pc = "none"
    /\ nextId < MaxToastIds
    /\ toasts' = addToast(toasts, maxToasts, Toast(nextId, "info", "loading", 0))
    /\ nextId' = nextId + 1
    /\ pending' = [pc |-> "pending", loadingId |-> nextId]
    /\ returned' = [op |-> "toastPromise", settled |-> "pending"]
    /\ UNCHANGED <<strategyVars, trendVars, scoreVars, limiterVars, maxToasts, storeVars>>

\* the promise settles and toastPromise runs to its end
Settle(fulfilled) ==
    /\ pending.pc = "pending"
    /\ toasts' = settle(toasts, maxToasts, pending.loadingId,
                        IF fulfilled
                        THEN Toast(nextId, "success", "success", defaultDuration("success"))
                        ELSE Toast(nextId, "error", "error", defaultDuration("error")))
    /\ nextId' = nextId + 1
    /\ pending' = [pc |-> "none", loadingId |-> pending.loadingId]
    /\ returned' = IF fulfilled
                   THEN [op |-> "toastPromise", settled |-> "fulfilled", value |-> "result"]
                   ELSE [op |-> "toastPromise", settled |-> "rejected", thrown |-> "error"]
    /\ UNCHANGED <<strategyVars, trendVars, scoreVars, limiterVars, maxToasts, storeVars>>

NextToast ==
    \/ \E type \in {"error", "warning"} : AddToast(type)
    \/ \E id \in 1..MaxToastIds : RemoveToast(id)
    \/ ClearAllToasts
    \/ \E max \in 0..MaxMaxToasts : SetMaxToasts(max)
    \/ ToastPromise
    \/ \E fulfilled \in BOOLEAN : Settle(fulfilled)

SpecToast == InitToast /\ [][NextToast]_vars

(***************************************************************************)
(* The useStrategy store as a state machine, from its default state        *)
(***************************************************************************)
\* the days on which the store's actions run
StoreDates == {Date(0, 2, 28), Date(0, 12, 31)}

StoreRatios == RatioInputs \cup {NaN}

StoreToggleDays == {0, 3, 7}

StoreCommentUpdates == CommentUpdates \cup {PartialComment({"maxCommentsPerDay"}, TRUE, TRUE, 25, TRUE)}

InitStore ==
    /\ IdleStrategy
    /\ IdleTrend
    /\ IdleScore
    /\ returned = NoReturn
    /\ IdleLimiter
    /\ IdleToast
    /\ \E today \in StoreDates : store = NewStore(today)

StoreSetImpressionRatio(ratio, today) ==
    /\ store' = useStrategy_setImpressionRatio(store, ratio, today)
    /\ UNCHANGED <<strategyVars, trendVars, scoreVars, queryVars, limiterVars, toastVars>>

StoreSetExpressionDays(days, today) ==
    /\ store' = useStrategy_setExpressionDays(store, days, today)
    /\ UNCHANGED <<strategyVars, trendVars, scoreVars, queryVars, limiterVars, toastVars>>

StoreToggleExpressionDay(day, today) ==
    /\ store' = useStrategy_toggleExpressionDay(store, day, today)
    /\ UNCHANGED <<strategyVars, trendVars, scoreVars, queryVars, limiterVars, toastVars>>

StoreUpdateCommentStrategy(updates, today) ==
    /\ store' = useStrategy_updateCommentStrategy(store, updates, today)
    /\ UNCHANGED <<strategyVars, trendVars, scoreVars, queryVars, limiterVars, toastVars>>

StoreResetToDefault(today) ==
    /\ store' = useStrategy_resetToDefault(store, today)
    /\ UNCHANGED <<strategyVars, trendVars, scoreVars, queryVars, limiterVars, toastVars>>

StoreRefreshSchedule(today) ==
    /\ store' = useStrategy_refreshSchedule(store, today)
    /\ UNCHANGED <<strategyVars, trendVars, scoreVars, queryVars, limiterVars, toastVars>>

NextStore ==
    \E today \in StoreDates :
        \/ \E ratio \in StoreRatios : StoreSetImpressionRatio(ratio, today)
        \/ \E days \in DayArrays : StoreSetExpressionDays(days, today)
        \/ \E day \in StoreToggleDays : StoreToggleExpressionDay(day, today)
        \/ \E updates \in StoreCommentUpdates : StoreUpdateCommentStrategy(updates, today)
        \/ StoreResetToDefault(today)
        \/ StoreRefreshSchedule(today)

SpecStore == InitStore /\ [][NextStore]_vars

(***************************************************************************)
(* getScoreRank as a state machine                                         *)
(***************************************************************************)
\* largest score handed to getScoreRank
MaxScore == 101

\* the scores -2, -1.5, ..., MaxScore in steps of a half
Scores == {Rat(k, 2) : k \in (-4)..(2 * MaxScore)}

InitRank ==
    /\ IdleStrategy
    /\ IdleTrend
    /\ IdleScore
    /\ returned = NoReturn
    /\ IdleApp

\* getScoreRank(score)
GetScoreRank(score) ==
    /\ returned' = [op |-> "getScoreRank", score |-> score, rank |-> getScoreRank(score)]
    /\ UNCHANGED <<strategyVars, trendVars, scoreVars, appVars>>

NextRank == \E score \in Scores : GetScoreRank(score)

SpecRank == InitRank /\ [][NextRank]_vars

(***************************************************************************)
(* classifyPost as a state machine                                         *)
(***************************************************************************)
\* a default manager classifying posts
InitClassify ==
    /\ IdleStrategy
    /\ IdleTrend
    /\ IdleScore
    /\ returned = NoReturn
    /\ IdleApp

\* classifyPost(content)
ClassifyPost(content) ==
    /\ returned' = [op |-> "classifyPost", content |-> content, value |-> classifyPost(content)]
    /\ UNCHANGED <<strategyVars, trendVars, scoreVars, appVars>>

NextClassify == \E content \in Contents : ClassifyPost(content)

SpecClassify == InitClassify /\ [][NextClassify]_vars

(***************************************************************************)
(* Properties of the StrategyManager queries                               *)
(***************************************************************************)
\* C15: isRatioHealthy classifies impressionRatio r as healthy iff
\* 0.80 <= r <= 0.95, warning iff r > 0.95, critical iff r < 0.70 and
\* acceptable iff 0.70 <= r < 0.80.
C15_RatioHealthClassification ==
    returned.op = "isRatioHealthy" =>
        LET r == strategy.impressionRatio
        IN  /\ returned.status = "healthy" <=> (NumLe(<<4, 5>>, r) /\ NumLe(r, <<19, 20>>))
            /\ returned.status = "warning" <=> NumLt(<<19, 20>>, r)
            /\ returned.status = "critical" <=> NumLt(r, <<7, 10>>)
            /\ returned.status = "acceptable" <=> (NumLe(<<7, 10>>, r) /\ NumLt(r, <<4, 5>>))

\* C18: generateWeeklySchedule(startDate) returns 7 entries, the first on
\* startDate and each next one on the following calendar day, so that the
\* days of the week advance by 1 modulo 7 and cover 0..6.
C18_SevenConsecutiveDays ==
    returned.op = "generateWeeklySchedule" =>
        LET schedule == returned.schedule
        IN  /\ Len(schedule) = 7
            /\ schedule[1].date = returned.startDate
            /\ \A i \in 1..7 : schedule[i].date.date \in 1..daysInMonth(schedule[i].date.month)
            /\ \A i \in 1..6 :
                    /\ dayNumber(schedule[i + 1].date) = dayNumber(schedule[i].date) + 1
                    /\ schedule[i + 1].dayOfWeek = (schedule[i].dayOfWeek + 1) % 7
            /\ {schedule[i].dayOfWeek : i \in 1..7} = 0..6

\* a schedule that starts in February and ends in March
C18_Witness ==
    /\ returned.op = "generateWeeklySchedule"
    /\ returned.schedule[1].date = Date(0, 2, 26)
    /\ returned.schedule[3].date = Date(0, 2, 28)
    /\ returned.schedule[4].date = Date(0, 3, 1)
    /\ returned.schedule[7].date = Date(0, 3, 4)

\* C19: every entry of the schedule is an expression day iff its day of the
\* week is in weeklyExpressionDays, recommends expression iff it is an
\* expression day, and recommends what getRecommendedMode gives for its date
\* in the same state.
C19_ScheduleAgreesWithMode ==
    returned.op = "generateWeeklySchedule" =>
        \A i \in 1..Len(returned.schedule) :
            LET e == returned.schedule[i]
            IN  /\ e.isExpressionDay <=>
                        (\E k \in 1..Len(strategy.weeklyExpressionDays) :
                            strategy.weeklyExpressionDays[k] = e.dayOfWeek)
                /\ e.recommendedMode = "expression" <=> e.isExpressionDay
                /\ e.recommendedMode \in {"expression", "impression"}
                /\ e.recommendedMode = getRecommendedMode(strategy, e.date)

\* a schedule for a manager whose only expression day is Wednesday: one entry
\* recommends expression, the six others impression
C19_Witness ==
    /\ returned.op = "generateWeeklySchedule"
    /\ strategy.weeklyExpressionDays = <<3>>
    /\ \E i \in 1..7 :
            /\ returned.schedule[i].dayOfWeek = 3
            /\ returned.schedule[i].recommendedMode = "expression"
            /\ \A j \in (1..7) \ {i} : returned.schedule[j].recommendedMode = "impression"

\* the keywords of a list that occur in the text
Contained(keywords, content) ==
    {keywords[k] : k \in {i \in 1..Len(keywords) : \E j \in 1..Len(content) : content[j] = keywords[i]}}

\* C17: classifyPost returns as impressionScore and expressionScore the
\* numbers of distinct impression and expression keywords in the text,
\* suggests impression iff impressionScore >= expressionScore (so also on a
\* tie and without any keyword), and gives as confidence the difference of
\* the two scores divided by 5, without a clamp.
C17_ClassifyPostCounts ==
    returned.op = "classifyPost" =>
        LET v == returned.value
            imp == Cardinality(Contained(impressionKeywords, returned.content))
            exp == Cardinality(Contained(expressionKeywords, returned.content))
        IN  /\ v.impressionScore = imp
            /\ v.expressionScore = exp
            /\ v.suggestedMode = "impression" <=> imp >= exp
            /\ v.suggestedMode = "expression" <=> imp < exp
            /\ v.confidence[2] > 0
            /\ 5 * v.confidence[1] = (IF imp >= exp THEN imp - exp ELSE exp - imp) * v.confidence[2]

\* a text with all thirteen impression keywords and no expression keyword
\* has been classified with a confidence above 1
C17_Witness ==
    /\ returned.op = "classifyPost"
    /\ returned.value.impressionScore = 13
    /\ returned.value.expressionScore = 0
    /\ returned.value.suggestedMode = "impression"
    /\ returned.value.confidence = <<13, 5>>

\* the score n/d is at least k
AtLeast(score, k) == score[1] >= k * score[2]

\* C16: getScoreRank gives S iff score >= 90, A iff 80 <= score < 90, B iff
\* 70 <= score < 80, C iff 50 <= score < 70 and D iff score < 50.
C16_RankBoundaries ==
    returned.op = "getScoreRank" =>
        LET score == returned.score
        IN  /\ returned.rank = "S" <=> AtLeast(score, 90)
            /\ returned.rank = "A" <=> (AtLeast(score, 80) /\ ~AtLeast(score, 90))
            /\ returned.rank = "B" <=> (AtLeast(score, 70) /\ ~AtLeast(score, 80))
            /\ returned.rank = "C" <=> (AtLeast(score, 50) /\ ~AtLeast(score, 70))
            /\ returned.rank = "D" <=> ~AtLeast(score, 50)

\* the score 90 has been ranked S
C16_Witness ==
    /\ returned.op = "getScoreRank"
    /\ returned.score = <<90, 1>>
    /\ returned.rank = "S"

\* the share of postTimings that falls in the golden hours, as the
\* consistency score takes it: 0 for an empty postTimings
goldenHourFraction(d) ==
    IF Len(d.postTimings) > 0
    THEN Rat(Cardinality({i \in 1..Len(d.postTimings) : d.postTimings[i] \in {7, 8, 9, 12, 13, 19, 20, 21, 22}}),
             Len(d.postTimings))
    ELSE <<0, 1>>

\* C20: with consistencyScore < 70 the recommendation con-2 (medium, impact
\* 5) is returned exactly when the golden-hour fraction of postTimings is
\* below 0.5, the fraction of an empty postTimings being 0; with
\* consistencyScore >= 70 it is not returned.
C20_OptimizeTimingRecommendation ==
    result.computed =>
        LET con2 == {i \in 1..Len(result.recommendations) : result.recommendations[i].id = "con-2"}
        IN  /\ result.consistencyScore < 70 =>
                    (con2 # {} <=> 2 * goldenHourFraction(data)[1] < goldenHourFraction(data)[2])
            /\ result.consistencyScore >= 70 => con2 = {}
            /\ \A i \in con2 :
                    /\ result.recommendations[i].priority = "medium"
                    /\ result.recommendations[i].expectedImpact = 5

(***************************************************************************)
(* Properties of POST /api/score                                           *)
(***************************************************************************)
\* C23: POST /api/score with a valid partial behaviorData scores a record in
\* which every field the caller gave has the given value, an explicit 0 and
\* an empty postTimings included, and every field the caller left out has
\* the value of the generated sample.
C23_MergeKeepsSuppliedFields ==
    (returned.op = "POST /api/score" /\ returned.status = 200 /\ returned.body.hasBehaviorData) =>
        /\ \A field \in BehaviorFields :
                data[field] = IF field \in returned.body.behaviorData.has
                              THEN returned.body.behaviorData.values[field]
                              ELSE returned.sample[field]
        /\ result = calculatePlatformScore(data)

\* a request that gave likesGiven: 0 alone has been scored with 0 likes and
\* the sample's comments and post timings
C23_Witness ==
    /\ returned.op = "POST /api/score"
    /\ returned.status = 200
    /\ returned.body.hasBehaviorData
    /\ returned.body.behaviorData.has = {"likesGiven"}
    /\ data.likesGiven = 0
    /\ data.commentsGiven = 29
    /\ data.postTimings = <<7, 8, 12, 19, 20>>
    /\ result.computed

(***************************************************************************)
(* Properties of /api/trends                                               *)
(***************************************************************************)
\* what a GET request asks for: a parameter is given when it is in the query
\* with a value, and a limit is a number when its text is a numeral
GetAsked(query) ==
    [platformOk |-> query.platform.present /\ isValidPlatform(query.platform.text),
     categoryBad |-> query.category.present /\ query.category.text # ""
                        /\ ~isValidCategory(query.category.text),
     limitGiven |-> query.limit.present /\ query.limit.text # <<>>,
     limit |-> parseInt_strict(query.limit.text)]

\* what a POST body asks for: a member is given when it is neither missing
\* nor null
PostAsked(body) ==
    [platformOk |-> body.platform.type = "string" /\ isValidPlatform(body.platform.str),
     categoryBad |-> body.category.type \notin {"undefined", "null"}
                        /\ ~(body.category.type = "string" /\ isValidCategory(body.category.str)),
     limitGiven |-> body.limit.type \notin {"undefined", "null"},
     limit |-> IF body.limit.type = "number" THEN <<body.limit.num, 1>> ELSE NaN]

Asked ==
    IF returned.op = "GET /api/trends" THEN GetAsked(returned.query) ELSE PostAsked(returned.body)

\* C24: GET and POST /api/trends answer 400 without running detection when
\* the platform is missing or unknown, a given category is not allowed, or a
\* given limit is not a number in 1..50; otherwise they run detectTrends with
\* the given limit, 10 when none is given.
C24_TrendsValidation ==
    returned.op \in {"GET /api/trends", "POST /api/trends"} =>
        IF \/ ~Asked.platformOk
           \/ Asked.categoryBad
           \/ Asked.limitGiven /\ (Asked.limit = NaN \/ NumLt(Asked.limit, <<1, 1>>)
                                       \/ NumLt(<<50, 1>>, Asked.limit))
        THEN returned.status = 400 /\ ~returned.detect.ran
        ELSE /\ returned.detect.ran
             /\ returned.detect.limit = IF Asked.limitGiven THEN Asked.limit ELSE <<10, 1>>

(***************************************************************************)
(* Properties of the rate limiter                                          *)
(***************************************************************************)
\* the API calls made in the window of windowMs that ends at time t
InWindow(calls_, t) == {i \in 1..Len(calls_) : calls_[i] > t - windowMs /\ calls_[i] <= t}

IsSuffix(a, b) == Len(a) <= Len(b) /\ a = SubSeq(b, Len(b) - Len(a) + 1, Len(b))

\* C27: after any sequence of addToast, removeToast, clearAllToasts and
\* setMaxToasts calls the number of queued toasts never exceeds the current
\* maxToasts, and when addToast overflows the queue the oldest toasts are
\* dropped while the new toast is kept.
C27_QueueWithinMax ==
    [][/\ Len(toasts') <= maxToasts'
       /\ (returned'.op = "addToast" /\ nextId' = nextId + 1) =>
            /\ Len(toasts') > 0
            /\ toasts'[Len(toasts')].id = nextId
            /\ IsSuffix(SubSeq(toasts', 1, Len(toasts') - 1), toasts)]_vars

C29_DerivedFieldsMatch ==
    /\ store.ratioHealth = isRatioHealthy(store.strategy)
    /\ store.commentAdvice = getCommentAdvice(store.strategy)
    /\ \A k \in 1..7 :
            /\ store.weeklySchedule[k].isExpressionDay
                    <=> includes(store.strategy.weeklyExpressionDays, store.weeklySchedule[k].dayOfWeek)
            /\ store.weeklySchedule[k].recommendedMode
                    = IF store.weeklySchedule[k].isExpressionDay THEN "expression" ELSE "impression"

\* every part of the strategy has been changed and every derived field
\* has followed
C29_Witness ==
    /\ store.strategy.impressionRatio = Half
    /\ store.ratioHealth = "critical"
    /\ store.strategy.weeklyExpressionDays = <<3>>
    /\ \E k \in 1..7 : store.weeklySchedule[k].dayOfWeek = 3 /\ store.weeklySchedule[k].isExpressionDay
    /\ ~store.strategy.commentStrategy.enabled
    /\ store.commentAdvice = <<"disabled">>

====
